---- MODULE Spec2Model ----
(***************************************************************************)
(* The scoring and ranking pipeline of chrome-ext-scout: the SQL queries   *)
(* of getMarketCategories, getCategoryExplorerData and                     *)
(* getOpportunitiesData, evaluated over a snapshot of the tables           *)
(* extensions, categories and category_extensions.                         *)
(*                                                                         *)
(* Numbers.  Ratings, averages, rating gaps and percentiles are exact      *)
(* rationals <<n, d>> (d > 0, lowest terms).  ln is a table-driven         *)
(* approximation in thousandths (Ln1000).  The double precision results of *)
(* the normalisation and scoring stages, all within [0, 100], are kept at  *)
(* a resolution of 1/FixOne.                                               *)
(***************************************************************************)
EXTENDS Integers, Sequences, FiniteSets, TLC

\* ------------------------------------------------------------------ bounds
NumExt == 2
NumCat == 2
MaxUsersValue == 1
MaxVoteMult == 1
MaxLimit == 3
MaxPage == 2
FixOne == 10000
MaxWrites == 1
MaxNormValue == 12

\* --------------------------------------------------------- program constants
NULL == -1
OPPORTUNITIES_BAYES_PRIOR_WEIGHT == 5000
DEFAULT_TABLE_PAGE_SIZE == 2
CATEGORY_MIN_PAGE_SIZE == 10
CATEGORY_MAX_PAGE_SIZE == 200
OPPORTUNITIES_SCORE_SCALE == 100

\* paging limits of the opportunities view
OPPORTUNITIES_MIN_PAGE == 1
OPPORTUNITIES_DEFAULT_PAGE == 1
OPPORTUNITIES_MIN_LIMIT == 1
OPPORTUNITIES_MAX_LIMIT == MaxLimit
OPPORTUNITIES_DEFAULT_LIMIT == MaxLimit

\* percentile thresholds and score weights, as fractions
OPPORTUNITIES_USERS_P95 == <<19, 20>>
OPPORTUNITIES_VOTES_P95 == <<19, 20>>
OPPORTUNITIES_COMPETITION_P95 == <<19, 20>>
OPPORTUNITIES_GAP_CAP_P90 == <<9, 10>>
OPPORTUNITIES_SCORE_DEMAND_WEIGHT == <<45, 100>>
OPPORTUNITIES_SCORE_GAP_WEIGHT == <<35, 100>>
OPPORTUNITIES_SCORE_INVERSE_COMPETITION_WEIGHT == <<20, 100>>

\* ------------------------------------------------------- rational arithmetic
Abs(x) == IF x < 0 THEN 0 - x ELSE x

RECURSIVE GCD(_, _)
GCD(a, b) == IF b = 0 THEN a ELSE GCD(b, a % b)

Rat(n, d) ==
  LET g == GCD(Abs(n), d)
  IN  IF n = 0 THEN <<0, 1>> ELSE <<n \div g, d \div g>>

RInt(i) == <<i, 1>>
RAdd(a, b) == Rat(a[1] * b[2] + b[1] * a[2], a[2] * b[2])
RSub(a, b) == Rat(a[1] * b[2] - b[1] * a[2], a[2] * b[2])
RMul(a, b) == Rat(a[1] * b[1], a[2] * b[2])
\* a / b for b > 0
RDiv(a, b) == Rat(a[1] * b[2], a[2] * b[1])
RLt(a, b) == a[1] * b[2] < b[1] * a[2]
RLe(a, b) == a[1] * b[2] <= b[1] * a[2]
RCmp(a, b) == IF RLt(a, b) THEN -1 ELSE IF RLt(b, a) THEN 1 ELSE 0
RFloor(a) == a[1] \div a[2]
greatest(a, b) == IF RLt(a, b) THEN b ELSE a
least(a, b) == IF RLt(b, a) THEN b ELSE a

\* a rational in [0, 1] at the resolution 1/FixOne
Fix(a) == (a[1] * FixOne) \div a[2]

\* --------------------------------------------------------------------- ln
LnTable == <<0, 118, 223, 318, 405, 486, 560, 629, 693>>

RECURSIVE Log2Floor(_, _)
\* the largest k with d * 2^k <= n, for n >= d > 0
Log2Floor(n, d) == IF 2 * d <= n THEN 1 + Log2Floor(n, 2 * d) ELSE 0

RECURSIVE Pow2(_)
Pow2(k) == IF k = 0 THEN 1 ELSE 2 * Pow2(k - 1)

\* 1000 * ln(x) for a rational x >= 1: x = 2^k * m with m in [1, 2), ln(m) read
\* from LnTable (steps of 1/8) with linear interpolation
Ln1000(x) ==
  LET k == Log2Floor(x[1], x[2])
      D == x[2] * Pow2(k)
      i == (8 * x[1]) \div D - 8
      r == (8 * x[1]) % D
  IN  LnTable[9] * k + LnTable[i + 1] + ((LnTable[i + 2] - LnTable[i + 1]) * r) \div D

\* ------------------------------------------------------------ the snapshot
ExtIds == 1..NumExt
categories == 1..NumCat

RatingGrid == {2, 4}
UsersGrid == 0..MaxUsersValue
VotesGrid == {OPPORTUNITIES_BAYES_PRIOR_WEIGHT * j : j \in 0..MaxVoteMult}

\* text columns are sequences of characters; they are fixed per extension id
ExtName(e) == IF e % 2 = 1 THEN <<"A", "d">> ELSE <<"t", "a", "b">>
ExtLanguages(e) == IF e % 2 = 1 THEN <<"e", "n">> ELSE <<>>

ExtensionRow ==
  [users : UsersGrid, rating : RatingGrid \cup {NULL}, rating_votes : VotesGrid]

\* the tables extensions and category_extensions; the request being answered and
\* the response returned; the statements of a request in flight; the states the
\* tables went through during it; the number of ingestion writes so far; the
\* arguments and the result of one evaluation of a parser or of a normalisation;
\* the I18nProvider of a page with the local storage and the navigator it reads;
\* the OpportunitiesClient of a page with the requests it has sent
VARIABLES extensions, category_extensions, request, response, inflight, snapshots, writes,
          call, i18n, client

vars == <<extensions, category_extensions, request, response, inflight, snapshots, writes,
          call, i18n, client>>

\* the tables one statement reads
Db == [extensions |-> extensions, category_extensions |-> category_extensions]

\* ---------------------------------------------------------------- helpers
coalesce(v, dflt) == IF v = NULL THEN dflt ELSE v

RECURSIVE SetSum(_, _)
\* the sum of f[x] over x in S
SetSum(f, S) ==
  IF S = {} THEN 0
  ELSE LET x == CHOOSE y \in S : TRUE IN f[x] + SetSum(f, S \ {x})

Lower(c) ==
  CASE c = "A" -> "a" [] c = "B" -> "b" [] c = "D" -> "d" [] c = "E" -> "e"
    [] c = "N" -> "n" [] c = "T" -> "t" [] c = "C" -> "c" [] c = "R" -> "r"
    [] c = "S" -> "s" [] c = "G" -> "g" [] c = "I" -> "i" [] c = "U" -> "u" [] OTHER -> c

RECURSIVE LikeMatch(_, _)
\* text ILIKE pattern: % matches any run of characters, _ any one character
LikeMatch(pat, text) ==
  IF pat = <<>> THEN text = <<>>
  ELSE IF Head(pat) = "%"
    THEN LikeMatch(Tail(pat), text) \/ (text # <<>> /\ LikeMatch(pat, Tail(text)))
  ELSE IF Head(pat) = "_"
    THEN text # <<>> /\ LikeMatch(Tail(pat), Tail(text))
  ELSE text # <<>> /\ Lower(Head(pat)) = Lower(Head(text))
         /\ LikeMatch(Tail(pat), Tail(text))

\* b.text ilike ('%' || sub || '%')
ilike(text, sub) == LikeMatch(<<"%">> \o sub \o <<"%">>, text)

\* ------------------------------------------- filter and top-slice exclusion
extensions_base(db) ==
  [e \in ExtIds |->
     [extension_id |-> e,
      extension_name |-> ExtName(e),
      users |-> coalesce(db.extensions[e].users, 0),
      rating |-> db.extensions[e].rating,
      rating_votes |-> coalesce(db.extensions[e].rating_votes, 0),
      languages |-> ExtLanguages(e)]]

\* ceil(count * (pct / 100.0))
\* variant: the fraction rounded down
ExcludeLimit_floor(count, pct) == IF pct <= 0 THEN 0 ELSE (count * pct) \div 100

ExcludeLimit(count, pct) == IF pct <= 0 THEN 0 ELSE (count * pct + 99) \div 100

\* the first ExcludeLimit rows of extensions_base by users desc, extension_id asc
top_excluded(db, f) ==
  LET b == extensions_base(db)
      before(e) == {x \in ExtIds : \/ b[x].users > b[e].users
                                   \/ b[x].users = b[e].users /\ x < e}
  IN  {e \in ExtIds :
         Cardinality(before(e)) < ExcludeLimit(Cardinality(ExtIds), f.excludeTopPct)}

\* variant: no upper bound on users
FilterPredicate_noMaxUsers(b, f) ==
  /\ b.users >= f.minUsers
  /\ b.rating # NULL
  /\ b.rating >= f.ratingMin
  /\ b.rating <= f.ratingMax
  /\ (f.lang = <<>> \/ ilike(b.languages, f.lang))
  /\ (f.extName = <<>> \/ ilike(b.extension_name, f.extName))

FilterPredicate(b, f) ==
  /\ b.users >= f.minUsers
  /\ (f.maxUsers = NULL \/ b.users <= f.maxUsers)
  /\ b.rating # NULL
  /\ b.rating >= f.ratingMin
  /\ b.rating <= f.ratingMax
  /\ (f.lang = <<>> \/ ilike(b.languages, f.lang))
  /\ (f.extName = <<>> \/ ilike(b.extension_name, f.extName))

\* the ids of the rows of filtered_extensions; the row of id e is extensions_base[e]
filtered_extensions(db, f) ==
  LET b == extensions_base(db)
      te == top_excluded(db, f)
  IN  {e \in ExtIds : e \notin te /\ FilterPredicate(b[e], f)}

\* ------------------------------------------------------------ global rating
\* variant: the ratings summed without their votes
WeightedSum_unweighted(b, S) ==
  SetSum([e \in S |-> b[e].rating],
         {e \in S : b[e].rating # NULL /\ b[e].rating_votes > 0})

\* sum(rating * rating_votes) filter (where rating is not null and rating_votes > 0)
WeightedSum(b, S) ==
  SetSum([e \in S |-> b[e].rating * b[e].rating_votes],
         {e \in S : b[e].rating # NULL /\ b[e].rating_votes > 0})

\* sum(rating_votes) filter (where rating is not null and rating_votes > 0)
WeightSum(b, S) ==
  SetSum([e \in S |-> b[e].rating_votes],
         {e \in S : b[e].rating # NULL /\ b[e].rating_votes > 0})

\* over the rows fe of filtered_extensions
\* variant: the sums taken over every rated row of extensions_base
global_weighted_base(db, fe) ==
  [weighted_sum |-> WeightedSum(extensions_base(db), ExtIds),
   weight_sum |-> WeightSum(extensions_base(db), ExtIds)]

global_weighted(db, fe) ==
  [weighted_sum |-> WeightedSum(extensions_base(db), fe),
   weight_sum |-> WeightSum(extensions_base(db), fe)]

global_rating(gw) ==
  IF gw.weight_sum > 0 THEN Rat(gw.weighted_sum, gw.weight_sum) ELSE RInt(0)

\* variant: the plain weighted average, without the prior
BayesAverage_noPrior(weighted_sum, weight_sum, K, c_rating) ==
  IF weight_sum > 0 THEN Rat(weighted_sum, weight_sum) ELSE c_rating

\* the Bayesian-smoothed average of one category
BayesAverage(weighted_sum, weight_sum, K, c_rating) ==
  IF weight_sum > 0
    THEN RAdd(RMul(Rat(weight_sum, weight_sum + K), Rat(weighted_sum, weight_sum)),
              RMul(Rat(K, weight_sum + K), c_rating))
    ELSE c_rating

\* ------------------------------------------------------------- percentiles
\* SQL NULL of a double precision column that otherwise holds a rational
RNULL == <<0, 0>>
rcoalesce(v, dflt) == IF v = RNULL THEN dflt ELSE v

RECURSIVE SortAsc(_, _)
\* the values v[x], x in S, in ascending order (v maps S to rationals)
SortAsc(S, v) ==
  IF S = {} THEN <<>>
  ELSE LET x == CHOOSE y \in S : \A z \in S : RLe(v[y], v[z])
       IN  <<v[x]>> \o SortAsc(S \ {x}, v)

\* percentile_cont(p) within group (order by v): linear interpolation between
\* the rows floor(p * (n - 1)) and ceil(p * (n - 1)), counted from 0; NULL on no rows
percentile_cont(p, S, v) ==
  LET vals == SortAsc(S, v)
      n == Len(vals)
      pos == RMul(p, RInt(n - 1))
      first == RFloor(pos)
      second == IF RInt(first) = pos THEN first ELSE first + 1
  IN  IF n = 0 THEN RNULL
      ELSE IF first = second THEN vals[first + 1]
      ELSE RAdd(vals[first + 1],
                RMul(RSub(pos, RInt(first)), RSub(vals[second + 1], vals[first + 1])))

\* --------------------------------------------------- opportunities pipeline
\* each CTE is an operator of the tables and of the CTEs it selects from
opp_category_aggregates(db, fe) ==
  LET b == extensions_base(db)
  IN  [c \in categories |->
         LET members == {e \in fe : <<c, e>> \in db.category_extensions}
         IN  [category_id |-> c,
              competition_count |-> Cardinality(members),
              rating_weighted_sum |-> WeightedSum(b, members),
              rating_weight_sum |-> WeightSum(b, members)]]

\* category_scores, keyed by category id: the categories with competition_count > 0
opp_category_scores(ca, gr) ==
  [c \in {x \in DOMAIN ca : ca[x].competition_count > 0} |->
     [category_id |-> c,
      competition_count |-> ca[c].competition_count,
      category_avg_rating |->
        BayesAverage(ca[c].rating_weighted_sum, ca[c].rating_weight_sum,
                     OPPORTUNITIES_BAYES_PRIOR_WEIGHT, gr)]]

\* variant: the signed difference
opp_rating_gap_signed(category_avg_rating, rating) ==
  RSub(category_avg_rating, RInt(rating))

\* greatest(cs.category_avg_rating - fe.rating, 0)
opp_rating_gap(category_avg_rating, rating) ==
  greatest(RSub(category_avg_rating, RInt(rating)), RInt(0))

candidate_set(db, fe, cs) ==
  LET b == extensions_base(db)
  IN  {[category_id |-> ce[1],
        extension_id |-> ce[2],
        users |-> b[ce[2]].users,
        rating |-> b[ce[2]].rating,
        rating_votes |-> b[ce[2]].rating_votes,
        category_avg_rating |-> cs[ce[1]].category_avg_rating,
        competition_count |-> cs[ce[1]].competition_count,
        rating_gap |-> opp_rating_gap(cs[ce[1]].category_avg_rating, b[ce[2]].rating)] :
         ce \in {x \in db.category_extensions : x[2] \in fe /\ x[1] \in DOMAIN cs}}

distribution(cand, cs) ==
  [p95_users |-> percentile_cont(OPPORTUNITIES_USERS_P95, cand,
                                  [c \in cand |-> RInt(c.users)]),
   p95_votes |-> percentile_cont(OPPORTUNITIES_VOTES_P95, cand,
                                  [c \in cand |-> RInt(c.rating_votes)]),
   p95_competition_count |->
     percentile_cont(OPPORTUNITIES_COMPETITION_P95, DOMAIN cs,
                     [c \in DOMAIN cs |-> RInt(cs[c].competition_count)]),
   gap_cap |-> percentile_cont(OPPORTUNITIES_GAP_CAP_P90, cand,
                                [c \in cand |-> c.rating_gap])]

\* variant: no upper bound
Clamp01_noCeiling(x) == greatest(x, RInt(0))

\* least(greatest(x, 0), 1)
Clamp01(x) == least(greatest(x, RInt(0)), RInt(1))

\* variant: a ceiling that is undefined or 0 counts as reached
LogNorm_ceilingUnchecked(v, p) ==
  IF RLt(RInt(0), rcoalesce(p, RInt(0)))
    THEN Fix(Clamp01(Rat(Ln1000(RAdd(v, RInt(1))), Ln1000(RAdd(p, RInt(1))))))
    ELSE FixOne

\* case when coalesce(p, 0) > 0 then least(greatest(ln(v + 1) / ln(p + 1), 0), 1) else 0
LogNorm(v, p) ==
  IF RLt(RInt(0), rcoalesce(p, RInt(0)))
    THEN Fix(Clamp01(Rat(Ln1000(RAdd(v, RInt(1))), Ln1000(RAdd(p, RInt(1))))))
    ELSE 0

\* case when coalesce(cap, 0) > 0 then least(greatest(v / cap, 0), 1) else 0
LinearNorm(v, cap) ==
  IF RLt(RInt(0), rcoalesce(cap, RInt(0))) THEN Fix(Clamp01(RDiv(v, cap))) ELSE 0

normalized(cand, d) ==
  {[category_id |-> c.category_id,
    extension_id |-> c.extension_id,
    users |-> c.users,
    rating |-> c.rating,
    rating_votes |-> c.rating_votes,
    category_avg_rating |-> c.category_avg_rating,
    competition_count |-> c.competition_count,
    rating_gap |-> c.rating_gap,
    demand_norm |-> LogNorm(RInt(c.users), d.p95_users),
    competition_norm |-> LogNorm(RInt(c.competition_count), d.p95_competition_count),
    rating_gap_norm |-> LinearNorm(c.rating_gap, d.gap_cap),
    confidence_norm |-> LogNorm(RInt(c.rating_votes), d.p95_votes)] : c \in cand}

\* variant: the product left unscaled
FixMul_unscaled(x, y) == x * y

\* x * y for two values at the resolution 1/FixOne
FixMul(x, y) == (x * y) \div FixOne

\* variant: the competition factor not inverted
Score_competitionNotInverted(n) ==
  RFloor(RMul(RInt(OPPORTUNITIES_SCORE_SCALE),
    RAdd(RAdd(RMul(OPPORTUNITIES_SCORE_DEMAND_WEIGHT, RInt(n.demand_norm)),
              RMul(OPPORTUNITIES_SCORE_GAP_WEIGHT,
                   RInt(FixMul(n.rating_gap_norm, n.confidence_norm)))),
         RMul(OPPORTUNITIES_SCORE_INVERSE_COMPETITION_WEIGHT, RInt(n.competition_norm)))))

\* SCALE * (Wd * demand + Wg * (gap * confidence) + Wc * (1 - competition))
Score(n) ==
  RFloor(RMul(RInt(OPPORTUNITIES_SCORE_SCALE),
    RAdd(RAdd(RMul(OPPORTUNITIES_SCORE_DEMAND_WEIGHT, RInt(n.demand_norm)),
              RMul(OPPORTUNITIES_SCORE_GAP_WEIGHT,
                   RInt(FixMul(n.rating_gap_norm, n.confidence_norm)))),
         RMul(OPPORTUNITIES_SCORE_INVERSE_COMPETITION_WEIGHT,
              RInt(FixOne - n.competition_norm)))))

final(norm) ==
  {[category_id |-> n.category_id,
    extension_id |-> n.extension_id,
    users |-> n.users,
    rating |-> n.rating,
    rating_votes |-> n.rating_votes,
    category_avg_rating |-> n.category_avg_rating,
    competition_count |-> n.competition_count,
    demand_norm |-> n.demand_norm,
    competition_norm |-> n.competition_norm,
    rating_gap |-> n.rating_gap,
    confidence_norm |-> n.confidence_norm,
    gap_effective |-> FixMul(n.rating_gap_norm, n.confidence_norm),
    score |-> Score(n)] : n \in norm}

\* the CTE chain of getOpportunitiesData, evaluated on the tables db
opp_baseCte(db, f) ==
  LET fe == filtered_extensions(db, f)
      gw == global_weighted(db, fe)
      gr == global_rating(gw)
      ca == opp_category_aggregates(db, fe)
      cs == opp_category_scores(ca, gr)
      cand == candidate_set(db, fe, cs)
      d == distribution(cand, cs)
  IN  [filtered_extensions |-> fe,
       global_rating |-> gr,
       category_scores |-> cs,
       candidate_set |-> cand,
       distribution |-> d,
       final |-> final(normalized(cand, d))]

\* ------------------------------------------------------------------ ranking
\* the ORDER BY chain of the opportunities view: <<column, direction>> pairs
opp_buildOrderByClause(params) ==
  LET direction == IF params.sortDir = "asc" THEN "asc" ELSE "desc"
  IN  CASE params.sortBy = "users" ->
             << <<"users", direction>>, <<"score", "desc">>,
                <<"rating_votes", "desc">>, <<"extension_id", "asc">> >>
        [] params.sortBy = "rating_gap" ->
             << <<"rating_gap", direction>>, <<"score", "desc">>,
                <<"users", "desc">>, <<"extension_id", "asc">> >>
        [] params.sortBy = "competition_count" ->
             << <<"competition_count", direction>>, <<"score", "desc">>,
                <<"users", "desc">>, <<"extension_id", "asc">> >>
        [] OTHER ->
             << <<"score", direction>>, <<"users", "desc">>,
                <<"rating_votes", "desc">>, <<"extension_id", "asc">> >>

\* the columns that hold rationals; every other sort column holds an integer
RationalColumns == {"rating_gap", "bucket_start"}

\* the value of a sort expression on a row
ColumnValue(col, a) ==
  CASE col = "rating is null" -> IF a.rating = NULL THEN 1 ELSE 0
    [] col = "rating_gap is null" -> IF a.rating_gap = RNULL THEN 1 ELSE 0
    [] OTHER -> a[col]

ColumnCmp(col, a, b) ==
  IF col \in RationalColumns THEN RCmp(ColumnValue(col, a), ColumnValue(col, b))
  ELSE IF ColumnValue(col, a) < ColumnValue(col, b) THEN -1
  ELSE IF ColumnValue(col, a) > ColumnValue(col, b) THEN 1 ELSE 0

RECURSIVE OrderCmp(_, _, _)
\* -1 when row a sorts before row b under the chain, 1 when after, 0 when the
\* chain does not separate them
OrderCmp(chain, a, b) ==
  IF chain = <<>> THEN 0
  ELSE LET c == ColumnCmp(Head(chain)[1], a, b)
           signed == IF Head(chain)[2] = "asc" THEN c ELSE 0 - c
       IN  IF signed # 0 THEN signed ELSE OrderCmp(Tail(chain), a, b)

RECURSIVE OrderedBy(_, _)
\* every sequence ORDER BY may return for the rows S: rows the chain does not
\* separate come in either order
OrderedBy(S, chain) ==
  IF S = {} THEN {<<>>}
  ELSE UNION {{<<m>> \o t : t \in OrderedBy(S \ {m}, chain)} :
                m \in {x \in S : \A y \in S : OrderCmp(chain, x, y) <= 0}}

Min(a, b) == IF a < b THEN a ELSE b

\* LIMIT n
Limit(s, n) == SubSeq(s, 1, Min(n, Len(s)))

\* LIMIT n OFFSET k
LimitOffset(s, n, k) == SubSeq(s, k + 1, Min(k + n, Len(s)))

\* select final.* from final order by <chain> limit <limit>
opp_scoped(cte, params) ==
  {Limit(o, params.limit) : o \in OrderedBy(cte.final, opp_buildOrderByClause(params))}

\* the results the table statement may return; cte is baseCte as the statement
\* evaluates it. The outer select has no order by of its own: it returns the rows
\* of scoped in the order of the subquery, as PostgreSQL scans it
opp_tableQuery(cte, params) ==
  {LimitOffset(s, DEFAULT_TABLE_PAGE_SIZE, (params.page - 1) * DEFAULT_TABLE_PAGE_SIZE) :
     s \in opp_scoped(cte, params)}

\* the results the bubble statement may return
opp_bubbleQuery(cte, params) == opp_scoped(cte, params)

\* ------------------------------------------------------------ market view
market_category_aggregates(db, fe) ==
  LET b == extensions_base(db)
  IN  [c \in categories |->
         LET members == {e \in fe : <<c, e>> \in db.category_extensions}
         IN  [category_id |-> c,
              total_extensions |-> Cardinality(members),
              total_users |-> SetSum([e \in members |-> b[e].users], members),
              rating_weighted_sum |-> WeightedSum(b, members),
              rating_weight_sum |-> WeightSum(b, members)]]

market_category_scores(ca, gr) ==
  [c \in DOMAIN ca |->
     [category_id |-> c,
      total_extensions |-> ca[c].total_extensions,
      total_users |-> ca[c].total_users,
      avg_rating |-> BayesAverage(ca[c].rating_weighted_sum, ca[c].rating_weight_sum,
                                  5000, gr)]]

market_distribution(cs) ==
  LET live == {c \in DOMAIN cs : cs[c].total_extensions > 0}
  IN  [p95_total_users |->
         percentile_cont(<<95, 100>>, live, [c \in live |-> RInt(cs[c].total_users)])]

market_normalized(cs, d) ==
  {[category_id |-> c,
    total_extensions |-> cs[c].total_extensions,
    total_users |-> cs[c].total_users,
    avg_rating |-> cs[c].avg_rating,
    users_norm |-> LogNorm(RInt(cs[c].total_users), d.p95_total_users),
    rating_norm |-> Fix(Clamp01(RDiv(cs[c].avg_rating, RInt(5))))] :
     c \in {x \in DOMAIN cs : cs[x].total_extensions > 0}}

\* the rows of the final select, before ORDER BY
market_select(db, f) ==
  LET fe == filtered_extensions(db, f)
      cs == market_category_scores(market_category_aggregates(db, fe),
                                   global_rating(global_weighted(db, fe)))
  IN  {[category_id |-> n.category_id,
        total_extensions |-> n.total_extensions,
        total_users |-> n.total_users,
        avg_rating |-> n.avg_rating,
        underserved_index |-> FixMul(n.users_norm, FixOne - n.rating_norm)] :
         n \in market_normalized(cs, market_distribution(cs))}

\* variant: order by n.category_id asc
market_query_byId(db, f) == OrderedBy(market_select(db, f), << <<"category_id", "asc">> >>)

\* order by n.total_users desc, n.category_id asc
market_query(db, f) ==
  OrderedBy(market_select(db, f), << <<"total_users", "desc">>, <<"category_id", "asc">> >>)

\* -------------------------------------------------- category explorer view
category_summary(db, fe, categoryId) ==
  LET b == extensions_base(db)
      members == {e \in fe : <<categoryId, e>> \in db.category_extensions}
  IN  [extension_count |-> Cardinality(members),
       rating_weighted_sum |-> WeightedSum(b, members),
       rating_weight_sum |-> WeightSum(b, members)]

\* variant: another prior weight than the other views
category_stats_otherPrior(cs, gr) ==
  [extension_count |-> cs.extension_count,
   avg_rating |-> BayesAverage(cs.rating_weighted_sum, cs.rating_weight_sum, 500, gr)]

category_stats(cs, gr) ==
  [extension_count |-> cs.extension_count,
   avg_rating |-> BayesAverage(cs.rating_weighted_sum, cs.rating_weight_sum, 5000, gr)]

\* variant: the difference floored at zero
category_rating_gap_floored(avg_rating, rating) ==
  IF rating = NULL THEN RNULL ELSE greatest(RSub(avg_rating, RInt(rating)), RInt(0))

\* case when fe.rating is null then null else cs.avg_rating - fe.rating end
category_rating_gap(avg_rating, rating) ==
  IF rating = NULL THEN RNULL ELSE RSub(avg_rating, RInt(rating))

category_extensions_view(db, fe, cs, categoryId) ==
  LET b == extensions_base(db)
  IN  {[extension_id |-> e,
        users |-> b[e].users,
        rating |-> b[e].rating,
        rating_votes |-> b[e].rating_votes,
        rating_gap |-> category_rating_gap(cs.avg_rating, b[e].rating)] :
         e \in {x \in fe : <<categoryId, x>> \in db.category_extensions}}

\* the CTE chain of buildCategoryExplorerCte, evaluated on the tables db
category_cte(db, f, categoryId) ==
  LET fe == filtered_extensions(db, f)
      cs == category_stats(category_summary(db, fe, categoryId),
                           global_rating(global_weighted(db, fe)))
  IN  [category_stats |-> cs,
       category_extensions_view |-> category_extensions_view(db, fe, cs, categoryId)]

category_buildOrderByClause(params) ==
  LET direction == IF params.sortDir = "asc" THEN "asc" ELSE "desc"
  IN  CASE params.sortBy = "rating" ->
             << <<"rating is null", "asc">>, <<"rating", direction>>,
                <<"extension_id", "asc">> >>
        [] params.sortBy = "rating_gap" ->
             << <<"rating_gap is null", "asc">>, <<"rating_gap", direction>>,
                <<"extension_id", "asc">> >>
        [] OTHER ->
             << <<"users", direction>>, <<"extension_id", "asc">> >>

\* variant: a category is there when an extension is linked to it
category_existsQuery_hasLinks(db, categoryId) ==
  \E e \in ExtIds : <<categoryId, e>> \in db.category_extensions

\* select c.id from categories c where c.id = categoryId limit 1
category_existsQuery(db, categoryId) == categoryId \in categories

\* the statements of Promise.all; cte is the CTE chain as the statement evaluates it
category_summaryQuery(cte) == cte.category_stats

\* order by cex.users desc, cex.extension_id asc, with users_log = ln(users + 1)
category_scatterQuery(cte) ==
  {[i \in DOMAIN o |->
      [extension_id |-> o[i].extension_id,
       users |-> o[i].users,
       users_log |-> Ln1000(RInt(o[i].users + 1)),
       rating |-> o[i].rating,
       rating_votes |-> o[i].rating_votes,
       rating_gap |-> o[i].rating_gap]] :
     o \in OrderedBy(cte.category_extensions_view,
                     << <<"users", "desc">>, <<"extension_id", "asc">> >>)}

RECURSIVE Pow10(_)
Pow10(k) == IF k = 0 THEN 1 ELSE 10 * Pow10(k - 1)

\* floor(ln(users) / ln(10)) + 1 for users >= 10, users, ln and the quotient being
\* double precision: the quotient of the two rounded logarithms is the exponent k
\* for 10^k <= users < 10^(k+1), except that for the powers of ten 10^3, 10^6, 10^9,
\* 10^12 and 10^13 it is rounded to a value just below k (ln(1000) / ln(10) is
\* 2.9999999999999996); holds for users below 10^14
UsersBucket(users) ==
  LET RECURSIVE Exponent(_)
      Exponent(u) == IF u < 10 THEN 0 ELSE 1 + Exponent(u \div 10)
      k == Exponent(users)
      floor_of_quotient == IF users = Pow10(k) /\ k \in {3, 6, 9, 12, 13} THEN k - 1 ELSE k
  IN  IF users <= 0 THEN 0
      ELSE IF users < 10 THEN 1
      ELSE floor_of_quotient + 1

\* the buckets in ascending order, one row per non-empty bucket
category_usersHistogramQuery(cte) ==
  LET cex == cte.category_extensions_view
      buckets == {[bucket |-> k,
                   bucket_start |-> IF k = 0 THEN 0 ELSE Pow10(k - 1),
                   bucket_end |-> IF k = 0 THEN 0 ELSE Pow10(k) - 1,
                   item_count |-> Cardinality({r \in cex : UsersBucket(r.users) = k})] :
                    k \in {UsersBucket(r.users) : r \in cex}}
  IN  OrderedBy(buckets, << <<"bucket", "asc">> >>)

\* floor(rating / 0.25) * 0.25, for a rating and the rating given as a fraction;
\* both operations are exact in double precision
RatingBucketStartOf(x) == Rat(RFloor(RMul(x, RInt(4))), 4)

RatingBucketStart(rating) == RatingBucketStartOf(RInt(rating))

\* least(bucket_start + 0.25, 5.0)
RatingBucketEnd(st) == least(RAdd(st, <<1, 4>>), RInt(5))

category_ratingHistogramQuery(cte) ==
  LET cex == {r \in cte.category_extensions_view : r.rating # NULL}
      buckets == {[bucket_start |-> st,
                   bucket_end |-> RatingBucketEnd(st),
                   item_count |-> Cardinality({r \in cex : RatingBucketStart(r.rating) = st})] :
                    st \in {RatingBucketStart(r.rating) : r \in cex}}
  IN  OrderedBy(buckets, << <<"bucket_start", "asc">> >>)

\* the page of rows, each with total_count = count(*) over ()
category_tableQuery(cte, table) ==
  LET cex == cte.category_extensions_view
  IN  {LimitOffset([i \in DOMAIN o |->
                      [extension_id |-> o[i].extension_id,
                       users |-> o[i].users,
                       rating |-> o[i].rating,
                       rating_votes |-> o[i].rating_votes,
                       rating_gap |-> o[i].rating_gap,
                       total_count |-> Cardinality(cex)]],
                   table.pageSize, (table.page - 1) * table.pageSize) :
         o \in OrderedBy(cex, category_buildOrderByClause(table))}

\* ------------------------------------------------------------------ requests
\* filters as parseGlobalFilters returns them; one request sets at most one of
\* the users and rating criteria
GlobalFilters ==
  {f \in [minUsers : {0, 1}, maxUsers : {NULL, 0}, ratingMin : {0, 3}, ratingMax : {5},
          excludeTopPct : {0, 25}, lang : {<<>>}, extName : {<<>>}] :
     /\ f.maxUsers = NULL \/ f.maxUsers >= f.minUsers
     /\ \/ f.minUsers = 0 /\ f.maxUsers = NULL
        \/ f.minUsers = 0 /\ f.ratingMin = 0
        \/ f.maxUsers = NULL /\ f.ratingMin = 0}

\* no users or rating criterion set
IsPlain(f) == f.minUsers = 0 /\ f.maxUsers = NULL /\ f.ratingMin = 0

\* parameters as parseOpportunitiesParams returns them
OpportunitiesParams ==
  [page : 1..MaxPage, limit : 1..MaxLimit,
   sortBy : {"score", "users", "rating_gap", "competition_count"},
   sortDir : {"asc", "desc"}]

OPPORTUNITIES_DEFAULT_PARAMS ==
  [page |-> 1, limit |-> MaxLimit, sortBy |-> "score", sortDir |-> "desc"]

\* parameters as parseCategoryTableParams returns them
CategoryTableParams ==
  [page : 1..MaxPage, pageSize : {CATEGORY_MIN_PAGE_SIZE},
   sortBy : {"users", "rating", "rating_gap"}, sortDir : {"asc", "desc"}]

CATEGORY_DEFAULT_PARAMS ==
  [page |-> 1, pageSize |-> CATEGORY_MIN_PAGE_SIZE, sortBy |-> "users", sortDir |-> "desc"]

\* the requests of one behaviour: the users and rating criteria are combined with
\* the default table parameters, the table parameters with plain filters
OpportunitiesRequests ==
  {r \in [view : {"opportunities"}, filters : GlobalFilters, params : OpportunitiesParams] :
     /\ IsPlain(r.filters) \/ r.params = OPPORTUNITIES_DEFAULT_PARAMS
     /\ (r.params.page = 1 /\ r.params.limit = MaxLimit)
        \/ (r.params.sortBy = "score" /\ r.params.sortDir = "desc")}

CategoryRequests ==
  {r \in [view : {"category"}, categoryId : 1..(NumCat + 1), filters : GlobalFilters,
          table : CategoryTableParams] :
     /\ (r.filters.excludeTopPct = 0 /\ IsPlain(r.filters))
        \/ r.table = CATEGORY_DEFAULT_PARAMS
     /\ r.categoryId \in categories
        \/ (r.filters.excludeTopPct = 0 /\ IsPlain(r.filters)
             /\ r.table = CATEGORY_DEFAULT_PARAMS)}

MarketRequests == [view : {"market"}, filters : GlobalFilters]

NoRequest == [view |-> "none"]
NoResponse == [view |-> "none"]
NoInflight == [view |-> "none"]
NoCall == [fn |-> "none"]

\* no I18nProvider in the page
NoProvider == [mounted |-> FALSE]

\* no client component in the page
NoClient == [state |-> "unmounted"]

\* ------------------------------------------------- what a handler may return
\* getMarketCategories on the tables db
MarketCategories(db, req) ==
  {[view |-> "market", categories |-> rows] : rows \in market_query(db, req.filters)}

\* the value getCategoryExplorerData builds from the results of its statements
CategoryExplorerData(req, exists, summary, scatter, usersHistogram, ratingHistogram, tableRows) ==
  IF ~exists THEN [view |-> "category", found |-> FALSE]
  ELSE [view |-> "category",
        found |-> TRUE,
        category |-> [id |-> req.categoryId,
                      avg_rating |-> summary.avg_rating,
                      extension_count |-> summary.extension_count],
        scatter_points |-> scatter,
        users_histogram |-> usersHistogram,
        rating_histogram |-> ratingHistogram,
        table |-> [page |-> req.table.page,
                   pageSize |-> req.table.pageSize,
                   total |-> IF tableRows # <<>> THEN tableRows[1].total_count ELSE 0,
                   rows |-> tableRows]]

\* the HTTP status GET /api/category/[id] answers with for the payload
category_GET_status(payload) == IF ~payload.found THEN 404 ELSE 200

\* getCategoryExplorerData when every statement reads the tables db
CategoryExplorerDataOn(db, req) ==
  IF ~category_existsQuery(db, req.categoryId)
    THEN {CategoryExplorerData(req, FALSE, <<>>, <<>>, <<>>, <<>>, <<>>)}
    ELSE LET cte == category_cte(db, req.filters, req.categoryId)
         IN  {CategoryExplorerData(req, TRUE, category_summaryQuery(cte), sc, uh, rh, t) :
                sc \in category_scatterQuery(cte),
                uh \in category_usersHistogramQuery(cte),
                rh \in category_ratingHistogramQuery(cte),
                t \in category_tableQuery(cte, req.table)}

\* the value getOpportunitiesData builds from the results of its two statements
OpportunitiesData(req, tableRows, bubblePoints) ==
  [view |-> "opportunities",
   bubble_points |-> bubblePoints,
   table |-> [page |-> req.params.page,
              pageSize |-> DEFAULT_TABLE_PAGE_SIZE,
              total |-> Len(bubblePoints),
              rows |-> tableRows]]

\* getOpportunitiesData when both statements read the tables db
OpportunitiesDataOn(db, req) ==
  LET cte == opp_baseCte(db, req.filters)
  IN  {OpportunitiesData(req, t, b) :
         t \in opp_tableQuery(cte, req.params), b \in opp_bubbleQuery(cte, req.params)}

\* ------------------------------------------------ requests with no writer
Init ==
  /\ extensions \in [ExtIds -> ExtensionRow]
  /\ category_extensions \in SUBSET (categories \X ExtIds)
  /\ request = NoRequest
  /\ response = NoResponse
  /\ inflight = NoInflight
  /\ snapshots = {}
  /\ writes = 0
  /\ call = NoCall
  /\ i18n = NoProvider
  /\ client = NoClient

Answer(req, resp) ==
  /\ request' = req
  /\ response' = resp
  /\ UNCHANGED <<extensions, category_extensions, inflight, snapshots, writes, call, i18n, client>>

getMarketCategories(req) == \E resp \in MarketCategories(Db, req) : Answer(req, resp)

getCategoryExplorerData(req) == \E resp \in CategoryExplorerDataOn(Db, req) : Answer(req, resp)

getOpportunitiesData(req) == \E resp \in OpportunitiesDataOn(Db, req) : Answer(req, resp)

\* each behaviour answers one request
Next ==
  \/ \E req \in MarketRequests : request = NoRequest /\ getMarketCategories(req)
  \/ \E req \in CategoryRequests : request = NoRequest /\ getCategoryExplorerData(req)
  \/ \E req \in OpportunitiesRequests : request = NoRequest /\ getOpportunitiesData(req)

Spec == Init /\ [][Next]_vars

\* ------------------------------------------- requests next to an ingestion
\* the SQL statements a handler sends through the pool
StatementsOf(view) ==
  CASE view = "market" -> {"market"}
    [] view = "opportunities" -> {"opp_table", "opp_bubble"}
    [] view = "category" ->
         {"exists", "summary", "scatter", "usersHistogram", "ratingHistogram",
          "category_table"}

\* what one statement may return when it reads the tables db
StatementResults(db, req, name) ==
  CASE name = "market" -> market_query(db, req.filters)
    [] name = "opp_table" -> opp_tableQuery(opp_baseCte(db, req.filters), req.params)
    [] name = "opp_bubble" -> opp_bubbleQuery(opp_baseCte(db, req.filters), req.params)
    [] name = "exists" -> {category_existsQuery(db, req.categoryId)}
    [] name = "summary" ->
         {category_summaryQuery(category_cte(db, req.filters, req.categoryId))}
    [] name = "scatter" ->
         category_scatterQuery(category_cte(db, req.filters, req.categoryId))
    [] name = "usersHistogram" ->
         category_usersHistogramQuery(category_cte(db, req.filters, req.categoryId))
    [] name = "ratingHistogram" ->
         category_ratingHistogramQuery(category_cte(db, req.filters, req.categoryId))
    [] name = "category_table" ->
         category_tableQuery(category_cte(db, req.filters, req.categoryId), req.table)

Done == DOMAIN inflight.results

\* the statements the handler in flight still waits for: the category handler
\* awaits the existence check first and returns when the category is missing
Pending ==
  IF inflight.view = "category" /\ "exists" \notin Done THEN {"exists"}
  ELSE IF inflight.view = "category" /\ ~inflight.results["exists"] THEN {}
  ELSE StatementsOf(inflight.view) \ Done

\* the value the handler in flight returns
Returned ==
  LET r == inflight.results
  IN  CASE inflight.view = "market" -> [view |-> "market", categories |-> r["market"]]
        [] inflight.view = "opportunities" ->
             OpportunitiesData(inflight.req, r["opp_table"], r["opp_bubble"])
        [] inflight.view = "category" ->
             IF ~r["exists"]
               THEN CategoryExplorerData(inflight.req, FALSE, <<>>, <<>>, <<>>, <<>>, <<>>)
               ELSE CategoryExplorerData(inflight.req, TRUE, r["summary"], r["scatter"],
                                         r["usersHistogram"], r["ratingHistogram"],
                                         r["category_table"])

\* the requests served next to the ingestion: default parameters, no criteria
IngestRequests ==
  {r \in MarketRequests \cup OpportunitiesRequests \cup CategoryRequests :
     /\ IsPlain(r.filters) /\ r.filters.excludeTopPct = 0
     /\ r.view = "opportunities" => r.params = OPPORTUNITIES_DEFAULT_PARAMS
     /\ r.view = "category" => r.table = CATEGORY_DEFAULT_PARAMS}

\* extension rows as the ingestion stores and refreshes them here
IngestRows == {r \in ExtensionRow : r.rating = 4 /\ r.rating_votes > 0}

InitIngest ==
  /\ extensions \in [ExtIds -> IngestRows]
  /\ category_extensions \in SUBSET (categories \X ExtIds)
  /\ request = NoRequest
  /\ response = NoResponse
  /\ inflight = NoInflight
  /\ snapshots = {}
  /\ writes = 0
  /\ call = NoCall
  /\ i18n = NoProvider
  /\ client = NoClient

\* a handler is called and sends nothing yet
Begin(req) ==
  /\ request = NoRequest /\ inflight.view = "none"
  /\ inflight' = [view |-> req.view, req |-> req, results |-> <<>>]
  /\ UNCHANGED <<extensions, category_extensions, request, response, snapshots, writes, call, i18n, client>>

\* the database executes one statement of the handler on the tables as they are
Execute(name) ==
  /\ inflight.view # "none" /\ name \in Pending
  /\ \E r \in StatementResults(Db, inflight.req, name) :
       inflight' = [inflight EXCEPT !.results = (name :> r) @@ @]
  /\ snapshots' = snapshots \cup {Db}
  /\ UNCHANGED <<extensions, category_extensions, request, response, writes, call, i18n, client>>

\* every statement has returned: the handler returns
Respond ==
  /\ inflight.view # "none" /\ Pending = {}
  /\ request' = inflight.req
  /\ response' = Returned
  /\ inflight' = NoInflight
  /\ UNCHANGED <<extensions, category_extensions, snapshots, writes, call, i18n, client>>

\* the ingestion refreshes the details of the extension e
IngestExtension(e, row) ==
  /\ writes < MaxWrites /\ extensions[e] # row
  /\ extensions' = [extensions EXCEPT ![e] = row]
  /\ writes' = writes + 1
  /\ UNCHANGED <<category_extensions, request, response, inflight, snapshots, call, i18n, client>>

\* the ingestion links the extension e to the category c
IngestLink(c, e) ==
  /\ writes < MaxWrites /\ <<c, e>> \notin category_extensions
  /\ category_extensions' = category_extensions \cup {<<c, e>>}
  /\ writes' = writes + 1
  /\ UNCHANGED <<extensions, request, response, inflight, snapshots, call, i18n, client>>

NextIngest ==
  \/ \E req \in IngestRequests : Begin(req)
  \/ \E name \in StatementsOf("market") \cup StatementsOf("opportunities")
                   \cup StatementsOf("category") : Execute(name)
  \/ Respond
  \/ \E e \in ExtIds, row \in IngestRows : IngestExtension(e, row)
  \/ \E c \in categories, e \in ExtIds : IngestLink(c, e)

SpecIngest == InitIngest /\ [][NextIngest]_vars

\* ----------------------------------- parsers and normalisations, one by one
\* raw values and percentile ceilings of the normalised stage, in halves
NormGrid == {Rat(n, 2) : n \in 0..(2 * MaxNormValue)}

InitFn ==
  /\ extensions = [e \in ExtIds |-> [users |-> 0, rating |-> NULL, rating_votes |-> 0]]
  /\ category_extensions = {}
  /\ request = NoRequest
  /\ response = NoResponse
  /\ inflight = NoInflight
  /\ snapshots = {}
  /\ writes = 0
  /\ call = NoCall
  /\ i18n = NoProvider
  /\ client = NoClient

Evaluate(c) ==
  /\ call = NoCall
  /\ call' = c
  /\ UNCHANGED <<extensions, category_extensions, request, response, inflight, snapshots,
                 writes, i18n, client>>

\* the logarithmic factor of one row of normalized (demand_norm, competition_norm,
\* confidence_norm) for the raw value v and the percentile p
norm_log(v, p) ==
  Evaluate([fn |-> "norm_log", v |-> v, p |-> p, result |-> LogNorm(v, p)])

\* rating_gap_norm of one row of normalized
norm_linear(v, p) ==
  Evaluate([fn |-> "norm_linear", v |-> v, p |-> p, result |-> LinearNorm(v, p)])

\* ------------------------------------------------------------- query strings
\* a query-string value is a sequence of characters; Absent is what
\* URLSearchParams.get returns for a parameter that is not in the query
Absent == <<"null">>

RECURSIVE trim(_)
\* String.prototype.trim, the blank being the only white space of the inputs
trim(s) ==
  IF s # <<>> /\ Head(s) = " " THEN trim(Tail(s))
  ELSE IF s # <<>> /\ s[Len(s)] = " " THEN trim(SubSeq(s, 1, Len(s) - 1))
  ELSE s

RECURSIVE toLowerCase(_)
toLowerCase(s) == IF s = <<>> THEN <<>> ELSE <<Lower(Head(s))>> \o toLowerCase(Tail(s))

\* digits, digits.digits, digits. and .digits; anything else is NaN (not finite)
StrUnsignedDecimalLiteral(s) ==
  LET Digits == <<"0", "1", "2", "3", "4", "5", "6", "7", "8", "9">>
      IsDigits(t) == t # <<>> /\ \A i \in DOMAIN t : \E d \in DOMAIN Digits : Digits[d] = t[i]
      RECURSIVE DigitsValue(_)
      DigitsValue(t) ==
        IF t = <<>> THEN 0
        ELSE 10 * DigitsValue(SubSeq(t, 1, Len(t) - 1))
             + (CHOOSE d \in DOMAIN Digits : Digits[d] = t[Len(t)]) - 1
      NaN == [finite |-> FALSE, value |-> RNULL]
      dots == {i \in DOMAIN s : s[i] = "."}
  IN  IF dots = {}
        THEN IF IsDigits(s) THEN [finite |-> TRUE, value |-> RInt(DigitsValue(s))] ELSE NaN
      ELSE LET dot == CHOOSE i \in dots : \A j \in dots : i <= j
               whole == SubSeq(s, 1, dot - 1)
               frac == SubSeq(s, dot + 1, Len(s))
           IN  IF /\ whole = <<>> \/ IsDigits(whole)
                  /\ frac = <<>> \/ IsDigits(frac)
                  /\ whole # <<>> \/ frac # <<>>
                 THEN [finite |-> TRUE,
                       value |-> Rat(DigitsValue(whole) * Pow10(Len(frac)) + DigitsValue(frac),
                                     Pow10(Len(frac)))]
               ELSE NaN

\* the texts of the queries, character by character
T_empty == <<>>
T_0 == <<"0">>
T_1 == <<"1">>
T_2 == <<"2">>
T_3 == <<"3">>
T_5 == <<"5">>
T_7 == <<"7">>
T_x == <<"x">>
T_blank == <<" ", " ">>
T_m1 == <<"-", "1">>
T_m3 == <<"-", "3">>
T_m4 == <<"-", "4">>
T_m5 == <<"-", "5">>
T_10 == <<"1", "0">>
T_25 == <<"2", "5">>
T_50 == <<"5", "0">>
T_60 == <<"6", "0">>
T_up == <<"u", "p">>
T__2_ == <<" ", "2", " ">>
T_1p5 == <<"1", ".", "5">>
T_1p7 == <<"1", ".", "7">>
T_2p5 == <<"2", ".", "5">>
T_2p9 == <<"2", ".", "9">>
T_200 == <<"2", "0", "0">>
T_ASC == <<"A", "S", "C">>
T_abc == <<"a", "b", "c">>
T_asc == <<"a", "s", "c">>
T__EN_ == <<" ", "E", "N", " ">>
T_1000 == <<"1", "0", "0", "0">>
T_50p5 == <<"5", "0", ".", "5">>
T_desc == <<"d", "e", "s", "c">>
T_Users == <<"U", "s", "e", "r", "s">>
T_score == <<"s", "c", "o", "r", "e">>
T_users == <<"u", "s", "e", "r", "s">>
T__Desc_ == <<" ", "D", "e", "s", "c", " ">>
T_RATING == <<"R", "A", "T", "I", "N", "G">>
T_rating == <<"r", "a", "t", "i", "n", "g">>
T__users_ == <<" ", "u", "s", "e", "r", "s", " ">>
T_Infinity == <<"I", "n", "f", "i", "n", "i", "t", "y">>
T_rating_gap == <<"r", "a", "t", "i", "n", "g", "_", "g", "a", "p">>
T_competition_count == <<"c", "o", "m", "p", "e", "t", "i", "t", "i", "o", "n", "_", "c", "o",
                        "u", "n", "t">>

\* Number(s) of a trimmed string: an optional sign, then Infinity or a decimal
\* literal; the inputs hold no exponent and no radix prefix
Number(s) ==
  IF s = <<>> THEN [finite |-> TRUE, value |-> RInt(0)]
  ELSE LET body == IF Head(s) \in {"+", "-"} THEN Tail(s) ELSE s
           u == IF body = T_Infinity THEN [finite |-> FALSE, value |-> RNULL]
                ELSE StrUnsignedDecimalLiteral(body)
       IN  IF u.finite /\ Head(s) = "-"
             THEN [finite |-> TRUE, value |-> RSub(RInt(0), u.value)]
           ELSE u

\* null is RNULL
parseNumber(value) ==
  IF value = Absent THEN RNULL
  ELSE LET trimmed == trim(value)
       IN  IF Len(trimmed) = 0 THEN RNULL
           ELSE LET parsed == Number(trimmed)
                IN  IF parsed.finite THEN parsed.value ELSE RNULL

Number_isInteger(r) == r[1] % r[2] = 0

\* variant: no upper bound
clamp_noMax(value, min, max) == greatest(value, min)

clamp(value, min, max) == least(greatest(value, min), max)

\* ------------------------------------------------------------------ parsers
globalFiltersSchema(v) ==
  /\ v.minUsers \in Nat
  /\ v.maxUsers = NULL \/ v.maxUsers \in Nat
  /\ RLe(RInt(0), v.ratingMin) /\ RLe(v.ratingMin, RInt(5))
  /\ RLe(RInt(0), v.ratingMax) /\ RLe(v.ratingMax, RInt(5))
  /\ v.excludeTopPct \in 0..50

\* schema.parse(v): the value, or a ZodError
zod_parse(valid, v) == [ok |-> valid, value |-> v]

\* variant: the upper bound is kept whatever the lower bound
maxUsers_checked_kept(maxUsers, minUsers) == maxUsers

\* if (maxUsers !== null && maxUsers < minUsers) maxUsers = null
maxUsers_checked(maxUsers, minUsers) ==
  IF maxUsers # NULL /\ maxUsers < minUsers THEN NULL ELSE maxUsers

parseGlobalFilters(searchParams) ==
  LET minUsersRaw == parseNumber(searchParams.minUsers)
      maxUsersRaw == parseNumber(searchParams.maxUsers)
      ratingMinRaw == parseNumber(searchParams.ratingMin)
      ratingMaxRaw == parseNumber(searchParams.ratingMax)
      excludeTopPctRaw == parseNumber(searchParams.excludeTopPct)
      minUsers == IF minUsersRaw # RNULL /\ RLe(RInt(0), minUsersRaw)
                    THEN RFloor(minUsersRaw) ELSE 0
      maxUsers0 == IF maxUsersRaw # RNULL /\ RLe(RInt(0), maxUsersRaw)
                     THEN RFloor(maxUsersRaw) ELSE NULL
      ratingMin0 == IF ratingMinRaw # RNULL THEN clamp(ratingMinRaw, RInt(0), RInt(5))
                    ELSE RInt(0)
      ratingMax0 == IF ratingMaxRaw # RNULL THEN clamp(ratingMaxRaw, RInt(0), RInt(5))
                    ELSE RInt(5)
      inverted == RLt(ratingMax0, ratingMin0)
      excludeTopPct == IF excludeTopPctRaw # RNULL /\ Number_isInteger(excludeTopPctRaw)
                         THEN RFloor(clamp(excludeTopPctRaw, RInt(0), RInt(50)))
                       ELSE 0
      v == [minUsers |-> minUsers,
            maxUsers |-> maxUsers_checked(maxUsers0, minUsers),
            ratingMin |-> IF inverted THEN RInt(0) ELSE ratingMin0,
            ratingMax |-> IF inverted THEN RInt(5) ELSE ratingMax0,
            excludeTopPct |-> excludeTopPct,
            lang |-> trim((IF searchParams.lang = Absent THEN <<>> ELSE searchParams.lang)),
            extName |-> trim((IF searchParams.extName = Absent THEN <<>>
                              ELSE searchParams.extName))]
  IN  zod_parse(globalFiltersSchema(v), v)

opportunitiesParamsSchema(v) ==
  /\ v.page \in Int /\ v.page >= OPPORTUNITIES_MIN_PAGE
  /\ v.limit \in Int /\ v.limit >= OPPORTUNITIES_MIN_LIMIT /\ v.limit <= OPPORTUNITIES_MAX_LIMIT
  /\ v.sortBy \in {"score", "users", "rating_gap", "competition_count"}
  /\ v.sortDir \in {"asc", "desc"}

\* variant: an unrecognised direction is ascending
sortDir_of_asc(raw) ==
  LET sortDirRaw == toLowerCase(trim((IF raw = Absent THEN <<>> ELSE raw)))
  IN  IF sortDirRaw = T_desc THEN "desc" ELSE "asc"

\* sortDirRaw === 'asc' || sortDirRaw === 'desc' ? sortDirRaw : 'desc'
sortDir_of(raw) ==
  LET sortDirRaw == toLowerCase(trim((IF raw = Absent THEN <<>> ELSE raw)))
  IN  IF sortDirRaw = T_asc THEN "asc" ELSE "desc"

\* variant: no upper bound on the limit
limit_clamped_noMax(limit) ==
  IF limit < OPPORTUNITIES_MIN_LIMIT THEN OPPORTUNITIES_MIN_LIMIT ELSE limit

\* the two ifs on limit; Math.floor of a finite number is finite
limit_clamped(limit) ==
  LET l == IF limit < OPPORTUNITIES_MIN_LIMIT THEN OPPORTUNITIES_MIN_LIMIT ELSE limit
  IN  IF l > OPPORTUNITIES_MAX_LIMIT THEN OPPORTUNITIES_MAX_LIMIT ELSE l

parseOpportunitiesParams(searchParams) ==
  LET pageRaw == parseNumber(searchParams.page)
      limitRaw == IF parseNumber(searchParams.limit) # RNULL
                    THEN parseNumber(searchParams.limit)
                  ELSE parseNumber(searchParams.pageSize)
      page == IF pageRaw # RNULL /\ RLe(RInt(OPPORTUNITIES_MIN_PAGE), pageRaw)
                THEN RFloor(pageRaw) ELSE OPPORTUNITIES_DEFAULT_PAGE
      limit == IF limitRaw # RNULL THEN RFloor(limitRaw) ELSE OPPORTUNITIES_DEFAULT_LIMIT
      sortByRaw == trim((IF searchParams.sortBy = Absent THEN <<>> ELSE searchParams.sortBy))
      sortBy == CASE sortByRaw = T_users -> "users"
                  [] sortByRaw = T_rating_gap -> "rating_gap"
                  [] sortByRaw = T_competition_count -> "competition_count"
                  [] OTHER -> "score"
      v == [page |-> page, limit |-> limit_clamped(limit), sortBy |-> sortBy,
            sortDir |-> sortDir_of(searchParams.sortDir)]
  IN  zod_parse(opportunitiesParamsSchema(v), v)

categoryTableParamsSchema(v) ==
  /\ v.page \in Int /\ v.page >= 1
  /\ v.pageSize \in Int /\ v.pageSize >= CATEGORY_MIN_PAGE_SIZE
  /\ v.pageSize <= CATEGORY_MAX_PAGE_SIZE
  /\ v.sortBy \in {"users", "rating", "rating_gap"}
  /\ v.sortDir \in {"asc", "desc"}

parseCategoryTableParams(searchParams) ==
  LET pageRaw == parseNumber(searchParams.page)
      pageSizeRaw == parseNumber(searchParams.pageSize)
      page == IF pageRaw # RNULL /\ RLe(RInt(1), pageRaw) THEN RFloor(pageRaw) ELSE 1
      pageSize0 == IF pageSizeRaw # RNULL THEN RFloor(pageSizeRaw)
                   ELSE DEFAULT_TABLE_PAGE_SIZE
      pageSize1 == IF pageSize0 < CATEGORY_MIN_PAGE_SIZE THEN CATEGORY_MIN_PAGE_SIZE
                   ELSE pageSize0
      pageSize == IF pageSize1 > CATEGORY_MAX_PAGE_SIZE THEN CATEGORY_MAX_PAGE_SIZE
                  ELSE pageSize1
      sortByRaw == trim((IF searchParams.sortBy = Absent THEN <<>> ELSE searchParams.sortBy))
      sortBy == CASE sortByRaw = T_rating -> "rating"
                  [] sortByRaw = T_rating_gap -> "rating_gap"
                  [] OTHER -> "users"
      v == [page |-> page, pageSize |-> pageSize, sortBy |-> sortBy,
            sortDir |-> sortDir_of(searchParams.sortDir)]
  IN  zod_parse(categoryTableParamsSchema(v), v)

\* ------------------------------------------------------------ query inputs
GlobalFiltersQueries ==
  [minUsers : {Absent, T_empty, T_abc, T_0, T_1, T_m1, T_1p5, T_1p7, T__2_},
   maxUsers : {Absent, T_empty, T_abc, T_0, T_1, T_m1, T_1p5, T_1p7, T__2_},
   ratingMin : {Absent, T_x, T_m1, T_2p5, T_3, T_7},
   ratingMax : {Absent, T_x, T_m1, T_2p5, T_3, T_7},
   excludeTopPct : {Absent, T_25, T_2p5, T_60, T_m5},
   lang : {Absent, T__EN_},
   extName : {Absent, T_blank}]

OpportunitiesQueries ==
  [page : {Absent, T_abc, T_0, T_1, T_2, T_2p5, T_m3, T__2_, T_Infinity},
   limit : {Absent, T_abc, T_0, T_1, T_2, T_2p9, T_1000, T_m4},
   pageSize : {Absent, T_abc, T_2, T_1000},
   sortBy : {Absent, T_users, T_rating_gap, T_competition_count, T_score,
             T_Users, T__users_, T_rating},
   sortDir : {Absent, T_asc, T_desc, T_ASC, T__Desc_, T_up}]

CategoryTableQueries ==
  [page : {Absent, T_abc, T_0, T_1, T_2, T_2p5, T_m3, T__2_, T_Infinity},
   pageSize : {Absent, T_abc, T_5, T_10, T_50, T_50p5, T_200, T_1000, T_m1},
   sortBy : {Absent, T_users, T_rating, T_rating_gap, T_score, T_RATING},
   sortDir : {Absent, T_asc, T_desc, T_ASC, T__Desc_, T_up}]

call_parseGlobalFilters(q) ==
  Evaluate([fn |-> "parseGlobalFilters", query |-> q, result |-> parseGlobalFilters(q)])

call_parseOpportunitiesParams(q) ==
  Evaluate([fn |-> "parseOpportunitiesParams", query |-> q,
            result |-> parseOpportunitiesParams(q)])

call_parseCategoryTableParams(q) ==
  Evaluate([fn |-> "parseCategoryTableParams", query |-> q,
            result |-> parseCategoryTableParams(q)])

\* ------------------------------------------------------------- histograms
\* user counts around the bucket bounds
UsersCounts == {0, 7, 9, 10, 250, 999, 1000, 1001}

\* the users histogram of a category whose surviving members are the extensions 1
\* and 2 with the given user counts
call_usersHistogram(u) ==
  \E h \in category_usersHistogramQuery(
             [category_extensions_view |->
                {[extension_id |-> e, users |-> u[e]] : e \in DOMAIN u}]) :
    Evaluate([fn |-> "usersHistogram", users |-> u, result |-> h])

\* ratings from 0 to 5 in steps of 1/8
RatingValues == {Rat(n, 8) : n \in 0..40}

\* the bucket of the rating histogram a row of the given rating is grouped into
call_ratingBucket(x) ==
  Evaluate([fn |-> "ratingBucket", rating |-> x,
            result |-> [bucket_start |-> RatingBucketStartOf(x),
                        bucket_end |-> RatingBucketEnd(RatingBucketStartOf(x))]])

\* ------------------------------------------------------------ text filters
\* the row of extensions_base with the given languages and name, and filters with
\* the given lang and extName, every other criterion open
call_FilterPredicate(languages, name, lang, extName) ==
  Evaluate([fn |-> "FilterPredicate", languages |-> languages, extension_name |-> name,
            lang |-> lang, extName |-> extName,
            result |-> FilterPredicate(
                         [users |-> 0, rating |-> 5, rating_votes |-> 0,
                          languages |-> languages, extension_name |-> name],
                         [minUsers |-> 0, maxUsers |-> NULL, ratingMin |-> 0, ratingMax |-> 5,
                          excludeTopPct |-> 0, lang |-> lang, extName |-> extName])])

\* column texts, and substrings with letters in either case and with % and _
ColumnTexts == {<<>>, <<"e", "n">>, <<"E", "N", ",", "d", "e">>, <<"a", "_", "b">>}
Substrings ==
  {<<>>, <<"e", "n">>, <<"N">>, <<"d", "e">>, <<"_">>, <<"%">>, <<"a", "_", "b">>,
   <<"e", "_">>, <<"n", "%", "d">>}

\* ------------------------------------------------------------ row mapping
\* a raw column value of the driver: a number (finite or NaN, Infinity), a string or
\* null
RawNumber(r) == [type |-> "number", finite |-> TRUE, value |-> r]
RawNotFinite == [type |-> "number", finite |-> FALSE, value |-> RNULL]
RawString(text) == [type |-> "string", text |-> text]
RawNull == [type |-> "null"]

\* variant: the parsed value as it is
toNumber_unchecked(value) ==
  LET parsed == IF value.type = "number" THEN [finite |-> value.finite, value |-> value.value]
                ELSE Number(trim(value.text))
  IN  parsed.value

\* the result is a number; RNULL stands for one that is not finite
toNumber(value) ==
  LET parsed == IF value.type = "number" THEN [finite |-> value.finite, value |-> value.value]
                ELSE Number(trim(value.text))
  IN  IF parsed.finite THEN parsed.value ELSE RInt(0)

toNullableNumber(value) == IF value = RawNull THEN RawNull ELSE toNumber(value)

\* the numeric columns of a table row that take values of their own
mapTableRow(row) ==
  [users |-> toNumber(row.users),
   rating |-> toNullableNumber(row.rating),
   rating_gap |-> toNullableNumber(row.rating_gap)]

RawValues ==
  {RawNumber(RInt(0)), RawNumber(RInt(7)), RawNumber(<<5, 2>>), RawNumber(<<-3, 2>>),
   RawNotFinite, RawString(T_25), RawString(T_2p5), RawString(T__2_), RawString(T_abc),
   RawString(T_Infinity), RawString(T_empty)}

call_mapTableRow(row) ==
  Evaluate([fn |-> "mapTableRow", row |-> row, result |-> mapTableRow(row)])

\* one evaluation in a behaviour
NextFn ==
  \/ call = NoCall /\ \E v \in NormGrid, p \in NormGrid \cup {RNULL} : norm_log(v, p)
  \/ call = NoCall /\ \E v \in NormGrid, p \in NormGrid \cup {RNULL} : norm_linear(v, p)
  \/ call = NoCall /\ \E q \in GlobalFiltersQueries : call_parseGlobalFilters(q)
  \/ call = NoCall /\ \E q \in OpportunitiesQueries : call_parseOpportunitiesParams(q)
  \/ call = NoCall /\ \E q \in CategoryTableQueries : call_parseCategoryTableParams(q)
  \/ call = NoCall /\ \E u \in [1..2 -> UsersCounts] : call_usersHistogram(u)
  \/ call = NoCall /\ \E x \in RatingValues : call_ratingBucket(x)
  \/ call = NoCall /\ \E t \in ColumnTexts, n \in ColumnTexts, l \in Substrings, x \in Substrings :
       call_FilterPredicate(t, n, l, x)
  \/ call = NoCall /\ \E row \in [users : RawValues, rating : RawValues \cup {RawNull},
                                  rating_gap : RawValues \cup {RawNull}] :
       call_mapTableRow(row)

SpecFn == InitFn /\ [][NextFn]_vars

\* ------------------------------------------------------- the language switch
T_en == <<"e", "n">>
T_ru == <<"r", "u">>
T_RU == <<"R", "U">>
T_fr == <<"f", "r">>
T_de_DE == <<"d", "e", "-", "D", "E">>
T_en_US == <<"e", "n", "-", "U", "S">>
T_ru_RU == <<"r", "u", "-", "R", "U">>

supportedLanguages == {T_en, T_ru}

\* what local storage holds under languageStorageKey at the first visit (Absent: no
\* item), and navigator.language
StoredItems == {Absent, T_en, T_ru, T_RU, T_fr}
NavigatorLanguages == {T_en_US, T_ru_RU, T_de_DE}

\* state updates queued for one render, each with the caller of setLanguage
MaxQueue == 2

startsWith(s, prefix) == Len(s) >= Len(prefix) /\ SubSeq(s, 1, Len(prefix)) = prefix

\* Absent stands for null
normalizeLanguage(rawLanguage) ==
  IF rawLanguage = Absent THEN Absent
  ELSE LET lowered == toLowerCase(rawLanguage)
       IN  IF startsWith(lowered, T_ru) THEN T_ru
           ELSE IF startsWith(lowered, T_en) THEN T_en
           ELSE Absent

\* variant: the navigator language first
mountLanguage_navigatorFirst(storage, navigator) ==
  LET fromStorage == normalizeLanguage(storage)
      fromNavigator == normalizeLanguage(navigator)
  IN  IF fromNavigator # Absent THEN <<fromNavigator>>
      ELSE IF fromStorage # Absent THEN <<fromStorage>>
      ELSE <<>>

\* the calls of setLanguage the first effect makes
mountLanguage(storage, navigator) ==
  LET fromStorage == normalizeLanguage(storage)
      fromNavigator == normalizeLanguage(navigator)
  IN  IF fromStorage # Absent THEN <<fromStorage>>
      ELSE IF fromNavigator # Absent THEN <<fromNavigator>>
      ELSE <<>>

InitI18n ==
  /\ extensions = [e \in ExtIds |-> [users |-> 0, rating |-> NULL, rating_votes |-> 0]]
  /\ category_extensions = {}
  /\ request = NoRequest
  /\ response = NoResponse
  /\ inflight = NoInflight
  /\ snapshots = {}
  /\ writes = 0
  /\ call = NoCall
  /\ client = NoClient
  /\ \E item \in StoredItems, navigator \in NavigatorLanguages :
       i18n = [mounted |-> FALSE, language |-> T_en, queue |-> <<>>, effects |-> {},
               storage |-> item, navigator |-> navigator]

Provider(next) ==
  /\ i18n' = next
  /\ UNCHANGED <<extensions, category_extensions, request, response, inflight, snapshots,
                 writes, call, client>>

\* the first render: useState('en'), both effects pending
Mount ==
  /\ ~i18n.mounted
  /\ Provider([i18n EXCEPT !.mounted = TRUE, !.language = T_en, !.queue = <<>>,
                           !.effects = {"mount"}])

\* the effects of the first render, in the order of the source: the first queues the
\* stored or the navigator language, the second stores the language of this render
MountEffects ==
  /\ i18n.mounted
  /\ "mount" \in i18n.effects
  /\ LET calls == mountLanguage(i18n.storage, i18n.navigator)
         queued == [i \in 1..Len(calls) |-> [language |-> calls[i], by |-> "effect"]]
     IN  Provider([i18n EXCEPT !.queue = i18n.queue \o queued,
                              !.storage = i18n.language,
                              !.effects = {}])

\* a consumer calls setLanguage of the context value; the provider has run its mount
\* effects
setLanguage(nextLanguage) ==
  /\ i18n.mounted
  /\ "mount" \notin i18n.effects
  /\ Len(i18n.queue) < MaxQueue
  /\ Provider([i18n EXCEPT !.queue = Append(i18n.queue, [language |-> nextLanguage,
                                                          by |-> "consumer"])])

\* the render of the queued updates, after the pending effects; the second effect
\* depends on language
Render ==
  /\ i18n.mounted
  /\ i18n.effects = {}
  /\ i18n.queue # <<>>
  /\ LET language == i18n.queue[Len(i18n.queue)].language
     IN  Provider([i18n EXCEPT !.language = language, !.queue = <<>>,
                              !.effects = IF language # i18n.language THEN {"language"}
                                          ELSE {}])

LanguageEffect ==
  /\ i18n.mounted
  /\ "language" \in i18n.effects
  /\ Provider([i18n EXCEPT !.storage = i18n.language, !.effects = {}])

\* the page is left at any moment; neither effect has a cleanup
Unmount ==
  /\ i18n.mounted
  /\ Provider([i18n EXCEPT !.mounted = FALSE, !.queue = <<>>, !.effects = {}])

NextI18n ==
  \/ Mount
  \/ MountEffects
  \/ \E nextLanguage \in supportedLanguages : setLanguage(nextLanguage)
  \/ Render
  \/ LanguageEffect
  \/ Unmount

\* pending effects and renders are run
SpecI18n ==
  InitI18n /\ [][NextI18n]_vars
    /\ WF_vars(MountEffects) /\ WF_vars(Render) /\ WF_vars(LanguageEffect)

\* ------------------------------------------------- the opportunities client
\* requests one client sends
MaxRequests == 3

\* the query string of the page, as the route parses it; the users criterion is the
\* filter of the form that is used
ClientFilters == {f \in GlobalFilters : f.maxUsers = NULL /\ f.ratingMin = 0 /\ f.excludeTopPct = 0}
ClientSortBy == {"score", "users"}

DefaultQuery ==
  [view |-> "opportunities",
   filters |-> [minUsers |-> 0, maxUsers |-> NULL, ratingMin |-> 0, ratingMax |-> 5,
                excludeTopPct |-> 0, lang |-> <<>>, extName |-> <<>>],
   params |-> OPPORTUNITIES_DEFAULT_PARAMS]

\* the load effect of a render with the query string nextQuery: the cleanup of the
\* last effect aborts its controller, then load() sets 'loading' and calls fetch. A
\* fetch or a body read that is pending rejects with AbortError and load() returns
\* in its catch; a body that has been read to its end is not touched by the abort
load(requests, nextQuery) ==
  LET n == Len(requests)
      aborted == [i \in 1..n |->
                    IF i = n /\ requests[i].phase # "done"
                      THEN [requests[i] EXCEPT
                              !.aborted = TRUE,
                              !.phase = IF @ \in {"fetching", "reading"} THEN "done" ELSE @]
                      ELSE requests[i]]
  IN  Append(aborted, [query |-> nextQuery, phase |-> "fetching", aborted |-> FALSE,
                       ok |-> TRUE])

\* useState(null), with NoResponse for null; the effect of the first render has run
InitClient ==
  /\ extensions = [e \in ExtIds |-> [users |-> e % 2, rating |-> 4, rating_votes |-> 0]]
  /\ category_extensions = categories \X ExtIds
  /\ request = NoRequest
  /\ response = NoResponse
  /\ inflight = NoInflight
  /\ snapshots = {}
  /\ writes = 0
  /\ call = NoCall
  /\ i18n = NoProvider
  /\ client = [query |-> DefaultQuery, state |-> "loading", payload |-> NoResponse,
               requests |-> load(<<>>, DefaultQuery)]

Client(next) ==
  /\ client' = next
  /\ UNCHANGED <<extensions, category_extensions, request, response, inflight, snapshots,
                 writes, call, i18n>>

\* router.push(...): the page renders with another query string and the load effect
\* runs again
push(nextQuery) ==
  /\ nextQuery # client.query
  /\ Len(client.requests) < MaxRequests
  /\ Client([client EXCEPT !.query = nextQuery, !.state = "loading",
                           !.requests = load(client.requests, nextQuery)])

\* the part of the page under state === 'success' && payload, with rows
TableShown == client.state = "success" /\ client.payload # NoResponse /\ client.payload.table.total # 0

canGoPrev == client.payload # NoResponse /\ client.payload.table.page > OPPORTUNITIES_MIN_PAGE
canGoNext ==
  /\ client.payload # NoResponse
  /\ client.payload.table.page * client.payload.table.pageSize < client.payload.table.total

LoadState == {"loading", "success", "error"}

\* the form is rendered in every state
onFilterSubmit(formFilters) ==
  /\ client.state \in LoadState
  /\ push([client.query EXCEPT !.filters = formFilters,
                               !.params.page = OPPORTUNITIES_DEFAULT_PAGE])

onFilterReset ==
  /\ client.state \in LoadState
  /\ push(DefaultQuery)

\* the chip of the users criterion
onClearFilter ==
  /\ client.query.filters.minUsers # 0
  /\ push([client.query EXCEPT !.filters.minUsers = 0,
                               !.params.page = OPPORTUNITIES_DEFAULT_PAGE])

onSort(sortBy) ==
  /\ TableShown
  /\ LET nextSortDir ==
           IF sortBy = client.query.params.sortBy
             THEN (IF client.query.params.sortDir = "desc" THEN "asc" ELSE "desc")
             ELSE "desc"
     IN  push([client.query EXCEPT !.params.sortBy = sortBy, !.params.sortDir = nextSortDir,
                                  !.params.page = OPPORTUNITIES_DEFAULT_PAGE])

onPageChange(nextPage) ==
  /\ TableShown
  /\ \/ canGoPrev /\ nextPage = client.payload.table.page - 1
     \/ canGoNext /\ nextPage = client.payload.table.page + 1
  /\ push([client.query EXCEPT !.params.page = nextPage])

\* the tasks of the fetches run in the order they were queued: the task that resolves
\* the body of an earlier request comes before the tasks of a request sent after it
InTurn(r) == \A i \in 1..(r - 1) : client.requests[i].phase # "read"

\* await fetch(...) resolves with the status of the route; load() calls response.json()
fetch_resolves(r, ok) ==
  /\ client.requests[r].phase = "fetching"
  /\ InTurn(r)
  /\ Client([client EXCEPT !.requests[r].phase = "reading", !.requests[r].ok = ok])

\* the body has been read to its end; a task is queued that resolves response.json()
body_read(r) ==
  /\ client.requests[r].phase = "reading"
  /\ Client([client EXCEPT !.requests[r].phase = "read"])

\* fetch or response.json() rejects for a failure of the network; the controller is
\* not aborted
fetch_rejects(r) ==
  /\ client.requests[r].phase \in {"fetching", "reading"}
  /\ InTurn(r)
  /\ Client([client EXCEPT !.requests[r].phase = "done", !.state = "error"])

\* the queued task resolves response.json() and load() runs to its end. After an
\* abort the platform may also have rejected the promise: rejected says which
json_resolves(r, rejected) ==
  /\ client.requests[r].phase = "read"
  /\ InTurn(r)
  /\ rejected => client.requests[r].aborted
  /\ IF rejected
       THEN Client([client EXCEPT !.requests[r].phase = "done"])
     ELSE IF ~client.requests[r].ok
       THEN Client([client EXCEPT !.requests[r].phase = "done",
                                  !.state = IF client.requests[r].aborted THEN @ ELSE "error"])
     ELSE \E json \in OpportunitiesDataOn(Db, client.requests[r].query) :
            Client([client EXCEPT !.requests[r].phase = "done",
                                  !.payload = json,
                                  !.state = "success"])

NextClient ==
  \/ \E r \in DOMAIN client.requests, ok \in BOOLEAN : fetch_resolves(r, ok)
  \/ \E r \in DOMAIN client.requests : body_read(r)
  \/ \E r \in DOMAIN client.requests : fetch_rejects(r)
  \/ \E r \in DOMAIN client.requests, rejected \in BOOLEAN : json_resolves(r, rejected)
  \/ \E formFilters \in ClientFilters : onFilterSubmit(formFilters)
  \/ onFilterReset
  \/ onClearFilter
  \/ \E sortBy \in ClientSortBy : onSort(sortBy)
  \/ \E nextPage \in 0..(MaxPage + 1) : onPageChange(nextPage)

SpecClient == InitClient /\ [][NextClient]_vars

\* =============================================================== properties
Range(s) == {s[i] : i \in DOMAIN s}

\* the extension rows a response shows
ShownRows ==
  IF response.view = "opportunities"
    THEN Range(response.bubble_points) \cup Range(response.table.rows)
  ELSE IF response.view = "category" /\ response.found
    THEN Range(response.scatter_points) \cup Range(response.table.rows)
  ELSE {}

\* the users and rating criteria of the filters f, on a row with users and rating
MeetsCriteria(row, f) ==
  /\ row.rating # NULL
  /\ f.minUsers <= row.users
  /\ f.maxUsers # NULL => row.users <= f.maxUsers
  /\ f.ratingMin <= row.rating /\ row.rating <= f.ratingMax

LinkedTo(c) == {e \in ExtIds : <<c, e>> \in category_extensions}

RECURSIVE ByUsersDesc(_)
ByUsersDesc(S) ==
  IF S = {} THEN <<>>
  ELSE LET top == CHOOSE e \in S : \A x \in S \ {e} :
                    \/ extensions[x].users < extensions[e].users
                    \/ extensions[x].users = extensions[e].users /\ x > e
       IN  <<top>> \o ByUsersDesc(S \ {top})

CeilDiv(a, b) == IF a % b = 0 THEN a \div b ELSE a \div b + 1

\* S without the first ceil(|S| * pct / 100) of its ids in that order
WithoutTop(S, pct) ==
  LET n == CeilDiv(Cardinality(S) * pct, 100)
  IN  S \ {ByUsersDesc(S)[i] : i \in 1..n}

MeetsAll(e, f) ==
  /\ MeetsCriteria(extensions[e], f)
  /\ f.lang = <<>> \/ ilike(ExtLanguages(e), f.lang)
  /\ f.extName = <<>> \/ ilike(ExtName(e), f.extName)

\* the extensions that survive when the top slice is cut from the whole snapshot
\* and the criteria are applied to what is left
SurvivorsOfSnapshotCut(f) == {e \in WithoutTop(ExtIds, f.excludeTopPct) : MeetsAll(e, f)}

\* the extensions that survive when the top slice is cut from the filtered set
SurvivorsOfFilteredCut(f) == WithoutTop({e \in ExtIds : MeetsAll(e, f)}, f.excludeTopPct)

ShownIds == {r.extension_id : r \in ShownRows}

ShownLinked ==
  IF request.view = "category" THEN LinkedTo(request.categoryId)
  ELSE UNION {LinkedTo(c) : c \in categories}

ShowsAll ==
  \/ request.view = "category" /\ response.found
  \/ request.view = "opportunities" /\ request.params = OPPORTUNITIES_DEFAULT_PARAMS
                                    /\ Len(response.bubble_points) < request.params.limit

OpportunityRows ==
  IF response.view = "opportunities"
    THEN Range(response.bubble_points) \cup Range(response.table.rows)
    ELSE {}

CategoryRows ==
  IF response.view = "category" /\ response.found
    THEN Range(response.scatter_points) \cup Range(response.table.rows)
    ELSE {}

\* max(avg - rating, 0)
FlooredGap(avg, rating) ==
  IF RLt(RInt(rating), avg) THEN RSub(avg, RInt(rating)) ELSE RInt(0)

\* C8: in the opportunities view every candidate's rating_gap is
\* max(category_avg_rating - rating, 0), so it is never negative, and a candidate
\* rated at or above its category average has rating_gap = 0 and gap_effective = 0
C8_OpportunityGapFloored ==
  \A r \in OpportunityRows :
    /\ r.rating_gap = FlooredGap(r.category_avg_rating, r.rating)
    /\ RLe(RInt(0), r.rating_gap)
    /\ RLe(r.category_avg_rating, RInt(r.rating)) =>
         r.rating_gap = RInt(0) /\ r.gap_effective = 0

\* a response with a candidate rated above its category average whose votes give
\* it confidence, next to a candidate with a positive effective gap
C8_Witness ==
  /\ \E r \in OpportunityRows :
       RLt(r.category_avg_rating, RInt(r.rating)) /\ r.confidence_norm > 0
  /\ \E r \in OpportunityRows : r.gap_effective > 0

Survivors == filtered_extensions(Db, request.filters)

\* W: the votes of the members S that have votes
VoteSum(S) ==
  LET voted == {e \in S : extensions[e].rating_votes > 0}
  IN  SetSum([e \in voted |-> extensions[e].rating_votes], voted)

\* S: the vote-weighted rating sum of the members S that have votes
VoteWeightedRatings(S) ==
  LET voted == {e \in S : extensions[e].rating_votes > 0}
  IN  SetSum([e \in voted |-> extensions[e].rating * extensions[e].rating_votes], voted)

\* G: the vote-weighted average rating of all survivors, 0 without votes
GlobalAverage ==
  IF VoteSum(Survivors) > 0
    THEN Rat(VoteWeightedRatings(Survivors), VoteSum(Survivors))
    ELSE RInt(0)

\* avg = (W / (W + K)) * (S / W) + (K / (W + K)) * G, that is
\* avg * (W + K) = S + K * G, and avg = G when W = 0
IsSmoothedAverage(avg, c, K) ==
  LET members == Survivors \cap LinkedTo(c)
      W == VoteSum(members)
  IN  IF W = 0 THEN avg = GlobalAverage
      ELSE RMul(avg, RInt(W + K)) =
             RAdd(RInt(VoteWeightedRatings(members)), RMul(RInt(K), GlobalAverage))

\* C10: the average rating of a category is the mean of its surviving members'
\* ratings weighted by votes, shrunk toward the global average G with the prior
\* weight K: (W/(W+K)) * (S/W) + (K/(W+K)) * G; it is G when W = 0, and members
\* without votes add to neither S nor W
C10_SmoothedAverage ==
  /\ \A r \in OpportunityRows :
       IsSmoothedAverage(r.category_avg_rating, r.category_id,
                         OPPORTUNITIES_BAYES_PRIOR_WEIGHT)
  /\ response.view = "category" /\ response.found =>
       IsSmoothedAverage(response.category.avg_rating, request.categoryId, 5000)
  /\ response.view = "market" =>
       \A c \in Range(response.categories) :
         IsSmoothedAverage(c.avg_rating, c.category_id, 5000)

\* a response with the average of a category whose members have votes, while the
\* plain average of the category is not G
C10_Witness ==
  /\ request.view \in {"opportunities", "category"}
  /\ \E c \in categories :
       LET members == Survivors \cap LinkedTo(c)
       IN  /\ \/ \E r \in OpportunityRows : r.category_id = c
              \/ response.view = "category" /\ response.found /\ request.categoryId = c
           /\ VoteSum(members) > 0
           /\ Rat(VoteWeightedRatings(members), VoteSum(members)) # GlobalAverage

\* ---- ranking and pagination
\* C3: the ranker's chain is a total order for every sort key: no two distinct
\* candidates of the ranked set compare equal, also when one extension is a
\* candidate in two categories
C3_RankerTotalOrder ==
  response.view = "opportunities" =>
    \A a, b \in Range(response.bubble_points) :
      a # b => OrderCmp(opp_buildOrderByClause(request.params), a, b) # 0

\* C4: the table page of an opportunities response is the slice
\* [(page - 1) * pageSize, page * pageSize) of its bubble set, and table.total is
\* the length of the bubble set, at most limit
C4_TableIsSliceOfBubbleSet ==
  response.view = "opportunities" =>
    /\ response.table.rows =
         SubSeq(response.bubble_points,
                (response.table.page - 1) * response.table.pageSize + 1,
                Min(response.table.page * response.table.pageSize,
                    Len(response.bubble_points)))
    /\ response.table.total = Len(response.bubble_points)
    /\ response.table.total <= request.params.limit

\* what the handler of the request req may return on the tables db
ResultsOn(db, req) ==
  CASE req.view = "market" -> MarketCategories(db, req)
    [] req.view = "category" -> CategoryExplorerDataOn(db, req)
    [] req.view = "opportunities" -> OpportunitiesDataOn(db, req)

\* C6: executing a request again on the same snapshot with the same inputs
\* returns the same output: the same rows in the same order
C6_RepeatedExecutionIdentical ==
  request # NoRequest => ResultsOn(Db, request) = {response}

\* ---- nothing downstream sees an excluded record
\* the records the excluder removes for the filters f
Excluded(f) == ExtIds \ WithoutTop(ExtIds, f.excludeTopPct)

\* the tables with the records X out of every candidate set: they have no rating
TablesWithout(X) ==
  [extensions |-> [e \in ExtIds |->
                     IF e \in X THEN [extensions[e] EXCEPT !.rating = NULL]
                     ELSE extensions[e]],
   category_extensions |-> category_extensions]

NoExclusion(req) == [req EXCEPT !.filters.excludeTopPct = 0]

\* C7: the records the top-slice excluder removes contribute to nothing
\* downstream: the global average, the category aggregates, the percentiles and
\* the response are what they are on tables without these records and with no
\* exclusion
C7_ExcludedContributeNothing ==
  request # NoRequest /\ request.filters.excludeTopPct > 0 =>
    LET db0 == TablesWithout(Excluded(request.filters))
        f0 == NoExclusion(request).filters
    IN  /\ response \in ResultsOn(db0, NoExclusion(request))
        /\ request.view = "opportunities" =>
             LET cte == opp_baseCte(Db, request.filters)
                 cte0 == opp_baseCte(db0, f0)
             IN  /\ cte.global_rating = cte0.global_rating
                 /\ cte.category_scores = cte0.category_scores
                 /\ cte.distribution = cte0.distribution

\* a response with a surviving extension while the excluder removed a linked
\* extension with a rating, votes and users that meets the criteria
C7_Witness ==
  /\ request # NoRequest
  /\ \E e \in Survivors : \E c \in categories : e \in LinkedTo(c)
  /\ \E e \in Excluded(request.filters) :
       /\ MeetsAll(e, request.filters)
       /\ extensions[e].rating_votes > 0 /\ extensions[e].users > 0
       /\ \E c \in categories : e \in LinkedTo(c)

\* ---- one snapshot per response
\* C5: every statement of one response sees the same snapshot, also while an
\* ingestion writes: the response is a value the handler returns on one of the
\* states the tables had while the statements ran
C5_ResponseFromOneSnapshot ==
  response # NoResponse => \E d \in snapshots : response \in ResultsOn(d, request)

\* ---- the global average rating
\* c_rating as the statements of the request compute it
c_rating == global_rating(global_weighted(Db, filtered_extensions(Db, request.filters)))

\* the records left after the exclusion and the criteria, with votes
VotedSurvivors(f) == {e \in SurvivorsOfSnapshotCut(f) : extensions[e].rating_votes > 0}

\* C11: the global average rating is sum(rating * rating_votes) / sum(rating_votes)
\* over the post-exclusion filtered records with rating_votes > 0, and 0 when
\* that weight sum is zero
C11_GlobalAverage ==
  request # NoRequest =>
    LET voted == VotedSurvivors(request.filters)
        W == SetSum([e \in voted |-> extensions[e].rating_votes], voted)
        S == SetSum([e \in voted |-> extensions[e].rating * extensions[e].rating_votes], voted)
    IN  /\ W > 0 => RMul(c_rating, RInt(W)) = RInt(S)
        /\ W = 0 => c_rating = RInt(0)
        /\ response.view = "category" /\ response.found
             /\ VoteSum(Survivors \cap LinkedTo(request.categoryId)) = 0 =>
               response.category.avg_rating = c_rating

\* a category response computed from survivors with votes and different ratings
C11_Witness ==
  /\ request # NoRequest
  /\ \E a, b \in VotedSurvivors(request.filters) : extensions[a].rating # extensions[b].rating
  /\ response.view = "category" /\ response.found

\* ---- normalisation
NormOf(c, v) == IF c.fn = "norm_log" THEN LogNorm(v, c.p) ELSE LinearNorm(v, c.p)

\* C12: for every raw value v >= 0 and percentile ceiling p, norm(v, p) lies in
\* [0, 1], does not decrease when v grows for a fixed p > 0, and is 0 when p = 0
\* or the percentile is undefined, in the logarithmic and in the linear form
C12_NormBoundedMonotone ==
  call.fn \in {"norm_log", "norm_linear"} =>
    /\ 0 <= call.result /\ call.result <= FixOne
    /\ call.p \in {RInt(0), RNULL} => call.result = 0
    /\ \A w \in NormGrid : RLe(call.v, w) => call.result <= NormOf(call, w)

\* a logarithmic factor strictly inside (0, 1) that a larger raw value raises
C12_Witness ==
  /\ call.fn = "norm_log"
  /\ 0 < call.result /\ call.result < FixOne
  /\ \E w \in NormGrid : call.result < NormOf(call, w)

\* ---- the score
\* C13: for every opportunities row gap_effective = rating_gap_norm *
\* confidence_norm and score = 100 * (0.45 * demand_norm + 0.35 * gap_effective +
\* 0.20 * (1 - competition_norm)); factors and score are held in units of 1/FixOne
C13_ScoreFormula ==
  response.view = "opportunities" =>
    LET gap_cap == opp_baseCte(Db, request.filters).distribution.gap_cap
    IN  \A r \in OpportunityRows :
          /\ r.gap_effective =
               (LinearNorm(r.rating_gap, gap_cap) * r.confidence_norm) \div FixOne
          /\ r.score = 45 * r.demand_norm + 35 * r.gap_effective
                         + 20 * (FixOne - r.competition_norm)

\* a row whose three terms all count: demand, an effective gap, and a
\* competition factor below 1
C13_Witness ==
  \E r \in OpportunityRows :
    r.demand_norm > 0 /\ r.gap_effective > 0 /\ r.competition_norm < FixOne
      /\ r.competition_norm > 0

\* ---- unknown category and empty category
\* C14: a category id that is not in the snapshot yields "not found" (null, 404);
\* a category of the snapshot without surviving members yields a 200 payload
\* with extension_count = 0 and empty scatter, histogram and table sets; the two
\* are never confused
C14_NotFoundVersusEmpty ==
  response.view = "category" =>
    /\ category_GET_status(response) = 404 <=> request.categoryId \notin categories
    /\ category_GET_status(response) \in {200, 404}
    /\ request.categoryId \in categories
         /\ SurvivorsOfSnapshotCut(request.filters) \cap LinkedTo(request.categoryId) = {} =>
           /\ response.found
           /\ response.category.extension_count = 0
           /\ response.scatter_points = <<>>
           /\ response.users_histogram = <<>>
           /\ response.rating_histogram = <<>>
           /\ response.table.rows = <<>> /\ response.table.total = 0

\* a 200 response for a category whose linked extensions were all filtered out
C14_Witness ==
  /\ response.view = "category"
  /\ category_GET_status(response) = 200
  /\ response.category.extension_count = 0
  /\ LinkedTo(request.categoryId) # {}

\* the rating bound a query asks for, after clamping: the default when the text
\* is not a finite number
ClampedRating(text, default) ==
  IF parseNumber(text) = RNULL THEN default ELSE clamp(parseNumber(text), RInt(0), RInt(5))

\* C15: parseGlobalFilters never fails, whatever the query: the filters it returns
\* have an integer minUsers >= 0, maxUsers null or an integer >= minUsers,
\* 0 <= ratingMin <= ratingMax <= 5 and an integer excludeTopPct in 0..50; a
\* malformed value is replaced by its default, and a rating range that is
\* inverted after clamping comes back as exactly 0 and 5.
C15_FiltersAlwaysValid ==
  call.fn = "parseGlobalFilters" =>
    LET q == call.query
        v == call.result.value
    IN  /\ call.result.ok
        /\ v.minUsers \in Nat
        /\ v.maxUsers = NULL \/ (v.maxUsers \in Nat /\ v.maxUsers >= v.minUsers)
        /\ RLe(RInt(0), v.ratingMin) /\ RLe(v.ratingMin, v.ratingMax)
        /\ RLe(v.ratingMax, RInt(5))
        /\ v.excludeTopPct \in 0..50
        /\ parseNumber(q.minUsers) = RNULL => v.minUsers = 0
        /\ parseNumber(q.maxUsers) = RNULL => v.maxUsers = NULL
        /\ parseNumber(q.excludeTopPct) = RNULL => v.excludeTopPct = 0
        /\ IF RLt(ClampedRating(q.ratingMax, RInt(5)), ClampedRating(q.ratingMin, RInt(0)))
             THEN v.ratingMin = RInt(0) /\ v.ratingMax = RInt(5)
           ELSE /\ v.ratingMin = ClampedRating(q.ratingMin, RInt(0))
                /\ v.ratingMax = ClampedRating(q.ratingMax, RInt(5))

\* a query with a malformed minUsers, an inverted rating range (3 above 2.5) and an
\* excludeTopPct above 50 has been parsed: defaults, the reset range and the clamp
C15_Witness ==
  /\ call.fn = "parseGlobalFilters"
  /\ call.query.minUsers = T_abc
  /\ call.query.ratingMin = T_3 /\ call.query.ratingMax = T_2p5
  /\ call.query.excludeTopPct = T_60
  /\ call.result.ok
  /\ call.result.value.minUsers = 0
  /\ call.result.value.ratingMin = RInt(0) /\ call.result.value.ratingMax = RInt(5)
  /\ call.result.value.excludeTopPct = 50

\* the query without its maxUsers parameter
WithoutMaxUsers(q) == [q EXCEPT !.maxUsers = Absent]

\* the users criteria of parsed filters as the pipeline's filter takes them, every
\* other criterion left open
UsersCriteria(v) ==
  [minUsers |-> v.minUsers, maxUsers |-> v.maxUsers, ratingMin |-> 0, ratingMax |-> 5,
   excludeTopPct |-> 0, lang |-> <<>>, extName |-> <<>>]

\* a row of extensions_base with the given users, passing every other criterion
RowWithUsers(u) ==
  [users |-> u, rating |-> 5, rating_votes |-> 0, languages |-> <<>>,
   extension_name |-> <<>>]

\* the filter puts no upper bound on users: every count from minUsers on passes
NoUpperBound(v) ==
  \A k \in 0..MaxUsersValue :
    FilterPredicate(RowWithUsers(v.minUsers + k), UsersCriteria(v))

\* the query behaves as the same query without maxUsers
AsIfMaxUsersUnset(q, result) ==
  /\ result = parseGlobalFilters(WithoutMaxUsers(q))
  /\ result.value.maxUsers = NULL
  /\ NoUpperBound(result.value)

\* C16 (amended): when the maxUsers of the request, rounded down, is below its
\* minUsers, rounded down, the request behaves as if maxUsers were unset: the parsed
\* filters are those of the same query without maxUsers, maxUsers is null and the
\* filter puts no upper bound on users.
C16_FlooredMaxBelowMinIsUnset ==
  call.fn = "parseGlobalFilters" =>
    LET lo == parseNumber(call.query.minUsers)
        hi == parseNumber(call.query.maxUsers)
    IN  (/\ lo # RNULL /\ hi # RNULL
         /\ RLe(RInt(0), lo) /\ RLe(RInt(0), hi)
         /\ RFloor(hi) < RFloor(lo))
        => AsIfMaxUsersUnset(call.query, call.result)

\* C16 as stated: whenever the request's maxUsers is below its minUsers, the
\* request behaves as if maxUsers were unset.
C16_MaxBelowMinIsUnset ==
  call.fn = "parseGlobalFilters" =>
    LET lo == parseNumber(call.query.minUsers)
        hi == parseNumber(call.query.maxUsers)
    IN  (lo # RNULL /\ hi # RNULL /\ RLt(hi, lo))
        => AsIfMaxUsersUnset(call.query, call.result)

\* minUsers = " 2 " with maxUsers = 1 has been parsed: minUsers stays 2 and
\* maxUsers is dropped
C16_Witness ==
  /\ call.fn = "parseGlobalFilters"
  /\ call.query.minUsers = T__2_ /\ call.query.maxUsers = T_1
  /\ call.result.value.minUsers = 2
  /\ call.result.value.maxUsers = NULL
  /\ NoUpperBound(call.result.value)

\* searchParams.get(name), trimmed
Trimmed(text) == trim(IF text = Absent THEN <<>> ELSE text)

\* the ORDER BY chains of the opportunities view: the requested key in the requested
\* direction, then score and the fixed tie-breaks down to the extension id
OpportunitiesChains ==
  {<< <<"score", d>>, <<"users", "desc">>, <<"rating_votes", "desc">>,
      <<"extension_id", "asc">> >> : d \in {"asc", "desc"}}
  \cup {<< <<"users", d>>, <<"score", "desc">>, <<"rating_votes", "desc">>,
           <<"extension_id", "asc">> >> : d \in {"asc", "desc"}}
  \cup {<< <<k, d>>, <<"score", "desc">>, <<"users", "desc">>, <<"extension_id", "asc">> >> :
          k \in {"rating_gap", "competition_count"}, d \in {"asc", "desc"}}

\* the ORDER BY chains of the category table
CategoryChains ==
  {<< <<"users", d>>, <<"extension_id", "asc">> >> : d \in {"asc", "desc"}}
  \cup {<< <<k \o " is null", "asc">>, <<k, d>>, <<"extension_id", "asc">> >> :
          k \in {"rating", "rating_gap"}, d \in {"asc", "desc"}}

\* C17: an unrecognised or missing sort key is no error: parseOpportunitiesParams
\* returns sortBy 'score' and parseCategoryTableParams sortBy 'users' for it, a
\* recognised key is returned as it is, a direction other than asc and desc in any
\* letter case is 'desc', and the ORDER BY built from the parsed parameters is one
\* of the fixed chains, led by the parsed key in the parsed direction.
C17_SortFallsBack ==
  /\ call.fn = "parseOpportunitiesParams" =>
       LET key == Trimmed(call.query.sortBy)
           dir == toLowerCase(Trimmed(call.query.sortDir))
           v == call.result.value
           chain == opp_buildOrderByClause(v)
       IN  /\ call.result.ok
           /\ v.sortBy = CASE key = T_users -> "users"
                           [] key = T_rating_gap -> "rating_gap"
                           [] key = T_competition_count -> "competition_count"
                           [] OTHER -> "score"
           /\ v.sortDir = (IF dir = T_asc THEN "asc" ELSE "desc")
           /\ chain \in OpportunitiesChains
           /\ chain[1] = <<v.sortBy, v.sortDir>>
  /\ call.fn = "parseCategoryTableParams" =>
       LET key == Trimmed(call.query.sortBy)
           dir == toLowerCase(Trimmed(call.query.sortDir))
           v == call.result.value
           chain == category_buildOrderByClause(v)
       IN  /\ call.result.ok
           /\ v.sortBy = CASE key = T_rating -> "rating"
                           [] key = T_rating_gap -> "rating_gap"
                           [] OTHER -> "users"
           /\ v.sortDir = (IF dir = T_asc THEN "asc" ELSE "desc")
           /\ chain \in CategoryChains
           /\ <<v.sortBy, v.sortDir>> \in {chain[1], chain[2]}

\* the opportunities parameters of sortBy=rating (a key of the category table only)
\* and sortDir=up have been parsed into score, desc
C17_Witness ==
  /\ call.fn = "parseOpportunitiesParams"
  /\ call.query.sortBy = T_rating /\ call.query.sortDir = T_up
  /\ call.result.ok
  /\ call.result.value.sortBy = "score" /\ call.result.value.sortDir = "desc"

\* n rounded down and clamped to lo..hi
FlooredInto(n, lo, hi) ==
  IF RFloor(n) < lo THEN lo ELSE IF RFloor(n) > hi THEN hi ELSE RFloor(n)

\* the page of a query: rounded down when it is a number from 1 on, else page 1
PageOf(text) ==
  IF parseNumber(text) # RNULL /\ RLe(RInt(1), parseNumber(text))
    THEN RFloor(parseNumber(text)) ELSE 1

\* the page size the category table takes when the query has none
CategoryDefaultPageSize ==
  FlooredInto(RInt(DEFAULT_TABLE_PAGE_SIZE), CATEGORY_MIN_PAGE_SIZE, CATEGORY_MAX_PAGE_SIZE)

\* the parsed category table parameters are in range, an out-of-range pageSize is
\* clamped and a malformed one replaced by the default
CategoryPagingValid ==
  call.fn = "parseCategoryTableParams" =>
    LET v == call.result.value
        size == parseNumber(call.query.pageSize)
    IN  /\ call.result.ok
        /\ v.page \in Nat /\ v.page >= 1 /\ v.page = PageOf(call.query.page)
        /\ v.pageSize \in CATEGORY_MIN_PAGE_SIZE..CATEGORY_MAX_PAGE_SIZE
        /\ v.pageSize = IF size = RNULL THEN CategoryDefaultPageSize
                        ELSE FlooredInto(size, CATEGORY_MIN_PAGE_SIZE,
                                         CATEGORY_MAX_PAGE_SIZE)

\* the parsed opportunities page and limit are in range
OpportunitiesPagingInRange ==
  LET v == call.result.value
  IN  /\ call.result.ok
      /\ v.page \in Nat /\ v.page >= 1 /\ v.page = PageOf(call.query.page)
      /\ v.limit \in OPPORTUNITIES_MIN_LIMIT..OPPORTUNITIES_MAX_LIMIT

\* C18 (amended): both parsers never fail; page is an integer >= 1, the
\* opportunities limit an integer in OPPORTUNITIES_MIN_LIMIT..OPPORTUNITIES_MAX_LIMIT,
\* the category pageSize an integer in 10..200; an out-of-range value is clamped to
\* the nearest bound, a malformed pageSize is replaced by the default, and a
\* malformed or missing limit is replaced by the pageSize parameter of the query
\* when that is a number, and by the default only when it is not.
C18_PagingClampedWithAlias ==
  /\ CategoryPagingValid
  /\ call.fn = "parseOpportunitiesParams" =>
       LET v == call.result.value
           limit == parseNumber(call.query.limit)
           alias == parseNumber(call.query.pageSize)
       IN  /\ OpportunitiesPagingInRange
           /\ v.limit = IF limit # RNULL
                          THEN FlooredInto(limit, OPPORTUNITIES_MIN_LIMIT,
                                           OPPORTUNITIES_MAX_LIMIT)
                        ELSE IF alias # RNULL
                          THEN FlooredInto(alias, OPPORTUNITIES_MIN_LIMIT,
                                           OPPORTUNITIES_MAX_LIMIT)
                        ELSE OPPORTUNITIES_DEFAULT_LIMIT

\* C18 as stated: both parsers never fail, the values are in range, an
\* out-of-range value is clamped and a malformed one replaced by the default.
C18_PagingClampedOrDefault ==
  /\ CategoryPagingValid
  /\ call.fn = "parseOpportunitiesParams" =>
       LET v == call.result.value
           limit == parseNumber(call.query.limit)
       IN  /\ OpportunitiesPagingInRange
           /\ limit # RNULL =>
                v.limit = FlooredInto(limit, OPPORTUNITIES_MIN_LIMIT, OPPORTUNITIES_MAX_LIMIT)
           /\ (call.query.limit # Absent /\ limit = RNULL) =>
                v.limit = OPPORTUNITIES_DEFAULT_LIMIT

\* limit=abc with pageSize=2 has been parsed into the limit 2, and page=-3 into 1
C18_Witness ==
  /\ call.fn = "parseOpportunitiesParams"
  /\ call.query.limit = T_abc /\ call.query.pageSize = T_2
  /\ call.query.page = T_m3
  /\ call.result.ok
  /\ call.result.value.limit = 2 /\ call.result.value.page = 1

\* ---- empty populations
\* the ceilings of the opportunities response and the factors of its rows: a factor
\* whose ceiling is 0 is 0
ZeroCeilingZeroFactor ==
  response.view = "opportunities" =>
    LET d == opp_baseCte(Db, request.filters).distribution
        zero(p) == rcoalesce(p, RInt(0)) = RInt(0)
    IN  \A r \in OpportunityRows :
          /\ zero(d.p95_users) => r.demand_norm = 0
          /\ zero(d.p95_votes) => r.confidence_norm = 0 /\ r.gap_effective = 0
          /\ zero(d.p95_competition_count) => r.competition_norm = 0
          /\ zero(d.gap_cap) => r.gap_effective = 0

LiveCategories ==
  {c \in categories : SurvivorsOfSnapshotCut(request.filters) \cap LinkedTo(c) # {}}

\* C20: the market view lists exactly the categories that have at least one
\* surviving member, each once, ordered by total_users descending and then by
\* category id ascending
C20_MarketListsLiveCategories ==
  response.view = "market" =>
    LET rows == response.categories
    IN  /\ {rows[i].category_id : i \in DOMAIN rows} = LiveCategories
        /\ Len(rows) = Cardinality(LiveCategories)
        /\ \A i, j \in DOMAIN rows :
             i < j => \/ rows[i].total_users > rows[j].total_users
                      \/ /\ rows[i].total_users = rows[j].total_users
                         /\ rows[i].category_id < rows[j].category_id

\* a market list on which the users decide the order: the category of the higher
\* id comes first
C20_Witness ==
  /\ response.view = "market"
  /\ Len(response.categories) = 2
  /\ response.categories[1].category_id > response.categories[2].category_id
  /\ response.categories[1].total_users > response.categories[2].total_users

\* ---- the underserved index
\* the 95th percentile of total_users over the categories of the market list, which
\* are the categories with surviving members
MarketUsersCeiling ==
  LET rows == response.categories
  IN  percentile_cont(<<95, 100>>, DOMAIN rows, [i \in DOMAIN rows |-> RInt(rows[i].total_users)])

\* C21: for every category of the market view underserved_index = demand_norm *
\* (1 - rating_norm), with rating_norm = clamp(avg_rating / 5, 0, 1) and demand_norm
\* the log-normalisation of total_users against the 95th percentile of total_users
\* over the categories with surviving members; it lies in [0, 1] (units of 1/FixOne)
C21_UnderservedIndex ==
  response.view = "market" =>
    LET rows == response.categories
        p95 == MarketUsersCeiling
    IN  \A i \in DOMAIN rows :
          LET demand_norm == LogNorm(RInt(rows[i].total_users), p95)
              rating_norm == Fix(Clamp01(RDiv(rows[i].avg_rating, RInt(5))))
          IN  /\ rows[i].underserved_index = (demand_norm * (FixOne - rating_norm)) \div FixOne
              /\ rows[i].underserved_index \in 0..FixOne

\* a market list of two categories, one below the users ceiling, with an index
\* strictly between 0 and 1
C21_Witness ==
  /\ response.view = "market"
  /\ Len(response.categories) = 2
  /\ \E i \in DOMAIN response.categories :
       /\ response.categories[i].underserved_index > 0
       /\ response.categories[i].underserved_index < FixOne
       /\ LogNorm(RInt(response.categories[i].total_users), MarketUsersCeiling) < FixOne

\* ---- histograms
\* C22: in the users histogram every surviving member is counted in exactly one
\* bucket whose bounds contain its user count: the buckets are [0,0], [1,9] and
\* [10^(k-1), 10^k - 1], the counts add up to the number of members, and every
\* member's users lies within the bounds of exactly one bucket of the histogram,
\* the exact powers of ten included
C22_UsersBucketContainsCount ==
  call.fn = "usersHistogram" =>
    LET h == call.result
        within(u, b) == b.bucket_start <= u /\ u <= b.bucket_end
    IN  /\ \A i \in DOMAIN h :
             \/ h[i].bucket_start = 0 /\ h[i].bucket_end = 0
             \/ \E k \in 1..8 : h[i].bucket_start = Pow10(k - 1) /\ h[i].bucket_end = Pow10(k) - 1
        /\ \A i \in DOMAIN h :
             h[i].item_count = Cardinality({e \in DOMAIN call.users : within(call.users[e], h[i])})
        /\ \A e \in DOMAIN call.users :
             Cardinality({i \in DOMAIN h : within(call.users[e], h[i])}) = 1

\* C23: every bucket of the rating histogram is exactly 0.25 wide and lies inside
\* [0, 5], for every rating in [0, 5], rating = 5.0 included; the rating is in its
\* bucket
C23_RatingBucketQuarterWide ==
  call.fn = "ratingBucket" =>
    LET b == call.result
    IN  /\ b.bucket_end = RAdd(b.bucket_start, <<1, 4>>)
        /\ RLe(RInt(0), b.bucket_start) /\ RLe(b.bucket_end, RInt(5))
        /\ RLe(b.bucket_start, call.rating) /\ RLe(call.rating, b.bucket_end)

\* ---- text filters
\* text contains sub literally, ignoring case
ContainsIgnoringCase(text, sub) ==
  \E i \in 0..(Len(text) - Len(sub)) :
    \A j \in 1..Len(sub) : Lower(text[i + j]) = Lower(sub[j])

\* C24: the language and name filters are case-insensitive 'contains' tests: a
\* record passes iff its languages, resp. its name, contains the substring
\* literally, ignoring case, for every substring, those with % and _ included;
\* the empty substring filters nothing
C24_LiteralContains ==
  call.fn = "FilterPredicate" =>
    call.result <=> /\ ContainsIgnoringCase(call.languages, call.lang)
                    /\ ContainsIgnoringCase(call.extension_name, call.extName)

\* ---- finite numbers
\* the number a raw value stands for, RNULL when it is not finite or not a number
ValueOf(raw) ==
  IF raw.type = "number" THEN raw.value
  ELSE IF Number(trim(raw.text)).finite THEN Number(trim(raw.text)).value ELSE RNULL

\* a mapped field is the finite number of its raw value, and 0 when that is not
\* finite or cannot be parsed
IsFiniteOf(field, raw) ==
  /\ field # RNULL
  /\ field = IF ValueOf(raw) = RNULL THEN RInt(0) ELSE ValueOf(raw)

\* C25: every numeric field that leaves the pipeline is a finite number: a raw
\* value that is not finite or cannot be parsed is replaced by 0 by toNumber, a
\* finite one is kept, and a nullable field is null exactly when its raw value
\* is, and finite otherwise
C25_FieldsFinite ==
  call.fn = "mapTableRow" =>
    /\ IsFiniteOf(call.result.users, call.row.users)
    /\ \A f \in {"rating", "rating_gap"} :
         IF call.row[f] = RawNull THEN call.result[f] = RawNull
         ELSE call.result[f] # RawNull /\ IsFiniteOf(call.result[f], call.row[f])

\* a row with users = 'abc', rating = null and rating_gap = NaN has been mapped to
\* users 0, rating null and rating_gap 0
C25_Witness ==
  /\ call.fn = "mapTableRow"
  /\ call.row.users = RawString(T_abc)
  /\ call.row.rating = RawNull
  /\ call.row.rating_gap = RawNotFinite
  /\ call.result = [users |-> RInt(0), rating |-> RawNull, rating_gap |-> RInt(0)]

\* ---- the language switch
\* nothing is pending in a mounted provider
Settled == i18n.mounted /\ i18n.queue = <<>> /\ i18n.effects = {}

\* the provider shows and stores language L
Holds(L) == Settled /\ i18n.language = L /\ i18n.storage = L

\* the last call of setLanguage that has not been rendered
LastCall == i18n.queue[Len(i18n.queue)]

\* the provider is gone, or a consumer has asked for another language since
Superseded(L) ==
  \/ ~i18n.mounted
  \/ i18n.queue # <<>> /\ LastCall.by = "consumer" /\ LastCall.language # L

\* C26: the language switch is persisted: after setLanguage(L) in a mounted provider
\* local storage comes to hold L; a fresh mount that finds L in local storage ends
\* with language = L, whatever the navigator language, and with L still stored once
\* its effects have settled; a settled provider stores the language it shows
C26_LanguagePersisted ==
  /\ [](Settled => i18n.storage = i18n.language)
  /\ \A L \in supportedLanguages :
       /\ (i18n.mounted /\ i18n.queue # <<>> /\ LastCall = [language |-> L, by |-> "consumer"])
            ~> (Holds(L) \/ Superseded(L))
       /\ (i18n.mounted /\ "mount" \in i18n.effects /\ i18n.storage = L)
            ~> (Holds(L) \/ Superseded(L))

\* a provider whose navigator language is en-US has settled on ru and stores ru
C26_Witness ==
  /\ Holds(T_ru)
  /\ i18n.navigator = T_en_US

\* ---- the total of the category table
\* C27: in the category explorer table.total is the number of surviving members
\* of the category on every requested page, also on a page whose offset lies
\* beyond the last row, and equals category.extension_count
C27_TotalOnEveryPage ==
  (response.view = "category" /\ response.found) =>
    /\ response.table.total = response.category.extension_count
    /\ response.table.total = Len(response.scatter_points)

\* ---- the three views
\* the answers of the category explorer for category c and of the opportunities
\* view on the tables and with the filters of the market request
ExplorerAnswers(c) ==
  CategoryExplorerDataOn(Db, [view |-> "category", categoryId |-> c,
                              filters |-> request.filters,
                              table |-> CATEGORY_DEFAULT_PARAMS])

OpportunitiesAnswers ==
  OpportunitiesDataOn(Db, [view |-> "opportunities", filters |-> request.filters,
                           params |-> OPPORTUNITIES_DEFAULT_PARAMS])

\* the explorer and the opportunities view state the count and the average of
\* the market row
AgreeWith(row) ==
  /\ \A x \in ExplorerAnswers(row.category_id) :
       /\ x.found
       /\ x.category.extension_count = row.total_extensions
       /\ x.category.avg_rating = row.avg_rating
  /\ \A o \in OpportunitiesAnswers : \A j \in DOMAIN o.bubble_points :
       o.bubble_points[j].category_id = row.category_id =>
         /\ o.bubble_points[j].competition_count = row.total_extensions
         /\ o.bubble_points[j].category_avg_rating = row.avg_rating

\* C28: for the same snapshot and the same filters the three views agree on
\* every category with surviving members: the market view's total_extensions
\* and avg_rating are the explorer's extension_count and avg_rating and the
\* opportunities view's competition_count and category_avg_rating
C28_ViewsAgree ==
  response.view = "market" =>
    \A i \in DOMAIN response.categories :
      response.categories[i].total_extensions > 0 => AgreeWith(response.categories[i])

\* a market row of a category with a rated, voted member, an extension excluded
\* from the snapshot, and a bubble point of that category
C28_Witness ==
  /\ response.view = "market"
  /\ request.filters.excludeTopPct > 0
  /\ \E i \in DOMAIN response.categories :
       /\ response.categories[i].total_extensions > 0
       /\ response.categories[i].avg_rating # RInt(0)
       /\ \E e \in ExtIds : /\ <<response.categories[i].category_id, e>> \in category_extensions
                             /\ extensions[e].rating_votes > 0
       /\ \E o \in OpportunitiesAnswers : \E j \in DOMAIN o.bubble_points :
            o.bubble_points[j].category_id = response.categories[i].category_id

\* ---- superseded requests
\* request r, whose controller has been aborted, ends in this step
EndsSuperseded(r) ==
  /\ client.requests[r].aborted
  /\ client.requests[r].phase # "done"
  /\ client'.requests[r].phase = "done"

\* every request has ended
AllSettled ==
  /\ \A r \in DOMAIN client.requests : client.requests[r].phase = "done"

\* C29: once the query string has changed and the controller of the previous
\* request is aborted, that request never sets state to 'error' or 'success' and
\* never replaces payload; after all requests have settled, the state is that of
\* the request for the latest query string and the payload shown is its answer
C29_SupersededIsSilent ==
  /\ [][\A r \in DOMAIN client.requests :
          EndsSuperseded(r) => client'.state = client.state /\ client'.payload = client.payload]_vars
  /\ [](AllSettled =>
          /\ client.state \in {"success", "error"}
          /\ client.state = "success" => client.payload \in OpportunitiesDataOn(Db, client.query))

\* ---- paging by the controls
\* the rows the result set of a query holds
TotalOf(query) == (CHOOSE json \in OpportunitiesDataOn(Db, query) : TRUE).table.total

\* the offset of the page lies within the result set, or the page is the first
WithinLastPage(query) ==
  \/ query.params.page = OPPORTUNITIES_MIN_PAGE
  \/ (query.params.page - 1) * DEFAULT_TABLE_PAGE_SIZE < TotalOf(query)

\* C30: from page 1 and by the controls of the client alone (Prev, Next, sort,
\* filter submit, clearing a chip, reset) on an unchanged snapshot, the requested
\* page never passes the last page, and a result set that is not empty never
\* shows a table page without rows
C30_PageWithinLastPage ==
  /\ client.query.params.page >= OPPORTUNITIES_MIN_PAGE
  /\ WithinLastPage(client.query)
  /\ \A r \in DOMAIN client.requests : WithinLastPage(client.requests[r].query)
  /\ (client.state = "success" /\ client.payload.table.total > 0) =>
       client.payload.table.rows # <<>>

====
